---- MODULE Spec2Model ----
(***************************************************************************)
(* A model of the timely-dataflow worker runtime with elastic rescaling:   *)
(*   - Worker (timely/src/worker.rs): channel registration, dataflow       *)
(*     construction, the step_or_park loop, teardown, bootstrap();         *)
(*   - Allocate (communication/src/allocator/mod.rs): the transport        *)
(*     operations the worker calls;                                        *)
(*   - the doc example of initialize (communication/src/initialize.rs):    *)
(*     workers exchanging messages over an allocated channel.              *)
(* The specifications share the variables:                                 *)
(*   Spec         one worker: construction, stepping, teardown, rescale;   *)
(*   SpecComm     several workers pushing and pulling on one channel;      *)
(*   SpecBoot     a joiner's bootstrap() against a donor and live senders; *)
(*   SpecBootFail the same with a bootstrap channel that can fail;         *)
(*   SpecExchange the same for a joiner that arrives at a cluster at work; *)
(*   SpecCluster  the workers of a cluster admitting joiners;              *)
(*   SpecStepWhile  the loop of step_while;                                *)
(*   SpecGuards   initialize_from, the worker threads and WorkerGuards;    *)
(*   SpecHandles  a Worker, its clones and the Wrappers of its dataflows.  *)
(***************************************************************************)
EXTENDS Naturals, Integers, Sequences, FiniteSets, TLC

(***************************************************************************)
(* Bounds of the model.                                                    *)
(***************************************************************************)
\* dataflows a worker constructs (cap of dataflow_counter)
MaxDataflows == 2
\* number of allocate() and pipeline() calls of the worker
MaxAllocs == 2
\* length of the allocator's event queue
MaxEvents == 2
\* peers admitted by rescaling
MaxJoin == 2
\* workers of the initial cluster
InitPeers == 2
\* channels a worker of the cluster allocates
MaxChannels == 1
\* times the predicate of step_while answers true before it answers false
MaxSteps == 4
\* worker threads of a process (the number of builders of initialize_from)
MaxThreads == 3
\* handles to one worker: the Worker and its clones
MaxHandles == 2

\* messages a worker pushes, over all its pushers
MaxMsgs == 2
\* workers of the message exchange: Configuration::Process(2)
NumWorkers == 2

\* progress updates broadcast in all, over every sender and progcaster
MaxUpdates == 3
\* progress updates broadcast after the joiner was launched at a cluster at work
MaxLateUpdates == 4

Workers == 0 .. (NumWorkers - 1)
\* the workers of the running cluster; the joiner nominates Donor
Senders == {0, 1}
Donor == 0
\* scope ids of the progcasters of the dataflow
Progcasters == {0, 1}
NoMsg == <<>>
NoProgcaster == -1
\* the worker threads of the cluster in launch order: the initial workers,
\* then the joiners
Members == 1 .. (InitPeers + MaxJoin)
Founders == 1 .. InitPeers
NoIndex == -1
\* a predicate of step_while that never answers false
Forever == -1
\* Configuration: join is None
NoJoin == -1
\* try_build returned no bootstrap endpoints: others.0 is None
NoEndpoints == -1
\* the configurations initialize is called with (initialize.rs:24-44)
Configs ==
    {[kind |-> "Thread", threads |-> 1, join |-> NoJoin]}
    \cup {[kind |-> "Process", threads |-> n, join |-> NoJoin] : n \in 1 .. MaxThreads}
    \cup {[kind |-> "Cluster", threads |-> n, join |-> j] :
             n \in 1 .. MaxThreads, j \in {NoJoin, Donor}}
\* initialize_from called with builders of the caller's own
NoConfig == [kind |-> "Builders", threads |-> 0, join |-> NoJoin]
\* the value of a command line option: not given, given with a text that is
\* no number, or given with a number
Absent == [given |-> FALSE, numeric |-> FALSE, value |-> 0]
Bad == [given |-> TRUE, numeric |-> FALSE, value |-> 0]
Num(v) == [given |-> TRUE, numeric |-> TRUE, value |-> v]
\* the command lines from_args is called with (initialize.rs:53-58):
\* parseable is whether getopts accepts the line, hostfile what -h names
ArgLines ==
    [parseable : BOOLEAN,
     w : {Absent, Bad, Num(2)},
     p : {Absent, Bad, Num(0), Num(2)},
     n : {Absent, Bad, Num(2)},
     join : {Absent, Bad, Num(Donor)},
     hostfile : {"none", "ok", "missing", "short"}]
DfIdx == 0 .. (MaxDataflows - 1)
\* channel identifiers the worker allocates with
Ids == {0, 1}
\* address paths: a dataflow index, optionally followed by an operator index
Addrs == {<<d, 0>> : d \in DfIdx}
\* the paths of the dataflows themselves
Roots == {<<d>> : d \in DfIdx}
\* what the allocator can add to the event queue: up to MaxEvents channel ids
EventBatches == UNION {[1 .. n -> Ids] : n \in 0 .. MaxEvents}
Durations == {"zero", "some", "none"}
NoDrain == [before |-> {}, chans |-> {}]

VARIABLES
    \* ---- Worker (worker.rs:60-83) ----
    paths,              \* HashMap channel id -> address path
    temp_channel_ids,   \* Vec of ids allocated since the last dataflow_core drain
    identifiers,        \* counter of new_identifier
    dataflows,          \* HashMap dataflow index -> Wrapper
    dataflow_counter,   \* counter of allocate_dataflow_index
    activations,        \* Activations: [pending, active] sets of paths
    active_dataflows,   \* Vec filled by for_extensions in step_or_park
    building,           \* stack of dataflow_core calls whose closure is running
    allocCalls,         \* number of allocate() and pipeline() calls so far
    \* ---- allocator seen by the worker ----
    events,             \* the allocator's event queue (channel ids)
    peers,              \* allocator.peers()
    pendingConn,        \* completed connections of new peers not yet admitted
    channels,           \* allocator's record of every allocate(): [id, pushers]
    \* ---- position in step_or_park ----
    pc,                 \* "idle" or the next phase of the running call
    duration,           \* the timeout argument of the running call
    ret,                \* the value the last call returned
    \* ---- history of the running / last call ----
    oplog,              \* operations performed, in order
    dec,                \* what the park test saw: [actEmpty, hasDfs]
    tornDfs,            \* dataflows whose operator reported complete in this call
    tornIds,            \* channel ids those dataflows owned
    drained,            \* the drain of this call: [before, chans]
    torndown,           \* channel ids ever removed from paths by a teardown
    rescaleFrom,        \* [peers, pushers] before the rescale of this call
    lastAddr,           \* address of the latest allocation of each id since its removal
    allocHist,          \* allocations: addresses given [temp, of], the construction that allocated [by], and whether an id of a live channel was reused
    \* ---- workers exchanging messages on channel 0 (initialize.rs:179-219) ----
    senders,            \* per worker: the pushers its on_new_pusher callback stored
    pushedCount,        \* per (source, target): messages pushed so far
    wire,               \* per (source, target): pushed, not yet at the target
    arrived,            \* per target: at the target, not yet surfaced by receive()
    surfaced,           \* per target: visible to the puller
    received,           \* per target: what recv() yielded, in order
    cpc,                \* per worker: position in the receive/recv/release cycle
    \* ---- a joiner's bootstrap() (worker.rs:478-540) and its environment ----
    sentSeq,            \* per (sender, progcaster): progress updates broadcast so far
    joined,             \* senders whose rescale has admitted the joiner
    liveFrom,           \* per (sender, progcaster): first sequence number sent to the joiner
    donorState,         \* per progcaster: the donor's progcaster state
    serverPc,           \* the donor's bootstrap server thread
    stateChan,          \* bootstrap channel: the state snapshots, or NoMsg
    reqChan,            \* bootstrap channel: the outstanding range request, or NoMsg
    respChan,           \* bootstrap channel: the range response, or NoMsg
    jpc,                \* position of the joiner in bootstrap()
    jstate,             \* per progcaster: the joiner's progcaster state
    stash,              \* per progcaster: live messages stashed by the client handle
    pulled,             \* per (progcaster, sender): live messages pulled so far
    progcasters_left,   \* progcasters the loop at worker.rs:507 has not visited
    progcaster,         \* the progcaster of the current iteration, or NoProgcaster
    worker_todo,        \* HashSet worker_todo (worker.rs:511)
    ranges,             \* the missing ranges still to request (worker.rs:520)
    \* ---- history of bootstrap() ----
    jlog,               \* per (progcaster, sender): sequence numbers in the joiner's state
    blog,               \* per progcaster: the client-handle calls, in order
    snapshot,           \* the states the donor sent
    wset,               \* per progcaster: get_worker_indices() as bootstrap() read it
    replayed,           \* per progcaster: the updates handed to apply_updates_range
    \* ---- a cluster admitting joiners (Allocate, mod.rs:48-60) ----
    indexOf,            \* per member: allocator.index(), NoIndex before its launch
    peersOf,            \* per member: allocator.peers()
    conn,               \* per member: completed connections of joiners, not yet admitted
    assigned,           \* per (member, joiner): the index the member's rescale gave the joiner
    pullersOf,          \* per member: number of pullers allocate() returned
    pushersOf,          \* per member: number of pushers of each of its channels
    mailbox,            \* per member: messages of joiners on their connections
    observed,           \* per member: the joiners' messages it has seen: [conn, src]
    \* ---- Worker::step_while (worker.rs:293-295) ----
    swpc,               \* "idle", "test" (before func()), "step" (in step()), "done"
    budget,             \* true answers func() still gives, or Forever
    calledWith,         \* the budget the call started with
    evals,              \* evaluations of func() so far (counted up to MaxSteps + 1)
    steps,              \* calls of step() so far (counted up to MaxSteps + 1)
    swdec,              \* what the park test of the last step() saw
    blocked,            \* the thread is parked in await_events
    \* ---- initialize, initialize_from and WorkerGuards (initialize.rs:242-370) ----
    gpc,                \* position of the caller: start, try_build, assert, spawning, holding ..
    config,             \* the Configuration initialize was called with, or NoConfig
    faults,             \* the configuration errors of the command line and environment
    clientThreads,      \* bootstrap client threads spawned by try_build
    builders,           \* number of allocator builders
    endpoints,          \* others.0: number of bootstrap endpoints, or NoEndpoints
    thread,             \* per worker thread: "unborn", "running", "returned", "panicked"
    guards,             \* Vec of JoinHandles, as the indices of their threads
    joinCount,          \* per worker thread: how often its handle was joined
    detached,           \* threads whose handle was dropped without a join
    results,            \* what join() has collected
    \* ---- a Worker and its clones (worker.rs:60-83, 549-566), Wrapper (568-613) ----
    workerHandles,      \* the handles that exist: 1 is the Worker, the others clones
    cellOf,             \* per (handle, field): the cell the field of the handle refers to
    heap,               \* per (field, cell): the value in the cell
    issued,             \* what new_identifier returned, in order: [by, id]
    wrappers,           \* per dataflow index: which of operate, resources is Some
    dropLog,            \* per dataflow index: what was dropped, in order
    lastSchedule        \* per dataflow index: what schedule() last reported

wvars == <<paths, temp_channel_ids, identifiers, dataflows, dataflow_counter,
           activations, active_dataflows, building, allocCalls, events, peers,
           pendingConn, channels, pc, duration, ret, oplog, dec, tornDfs, tornIds, drained, torndown,
           rescaleFrom, lastAddr, allocHist>>

cvars == <<senders, pushedCount, wire, arrived, surfaced, received, cpc>>

bvars == <<sentSeq, joined, liveFrom, donorState, serverPc, stateChan, reqChan,
           respChan, jpc, jstate, stash, pulled, progcasters_left, progcaster,
           worker_todo, ranges, jlog, blog, snapshot, wset, replayed>>

kvars == <<indexOf, peersOf, conn, assigned, pullersOf, pushersOf, mailbox, observed>>

svars == <<swpc, budget, calledWith, evals, steps, swdec, blocked>>

gvars == <<gpc, config, faults, clientThreads, builders, endpoints, thread, guards, joinCount, detached,
           results>>

hvars == <<workerHandles, cellOf, heap, issued, wrappers, dropLog, lastSchedule>>

vars == <<wvars, cvars, bvars, kvars, svars, gvars, hvars>>

\* what the actions of one specification leave alone
notWorker == <<cvars, bvars, kvars, svars, gvars, hvars>>
notComm == <<wvars, bvars, kvars, svars, gvars, hvars>>
notBoot == <<wvars, cvars, kvars, svars, gvars, hvars>>
notCluster == <<wvars, cvars, bvars, svars, gvars, hvars>>
notStepWhile == <<wvars, cvars, bvars, kvars, gvars, hvars>>
notGuards == <<wvars, cvars, bvars, kvars, svars, hvars>>
notHandles == <<wvars, cvars, bvars, kvars, svars, gvars>>

(***************************************************************************)
(* Helpers.                                                                *)
(***************************************************************************)
RECURSIVE SortedSeq(_)
SortedSeq(S) ==
    IF S = {} THEN <<>>
    ELSE LET m == CHOOSE x \in S : \A y \in S : x <= y
         IN <<m>> \o SortedSeq(S \ {m})

RECURSIVE SumOver(_, _)
SumOver(f, S) ==
    IF S = {} THEN 0
    ELSE LET x == CHOOSE y \in S : TRUE IN f[x] + SumOver(f, S \ {x})

SeqToSet(s) == {s[i] : i \in 1 .. Len(s)}

MapRemove(m, k) == [x \in DOMAIN m \ {k} |-> m[x]]
MapInsert(m, k, v) == [x \in DOMAIN m \cup {k} |-> IF x = k THEN v ELSE m[x]]

EmptyMap == [x \in {} |-> 0]

(***************************************************************************)
(* Activations (scheduling::Activations, used through worker.rs:218-249).  *)
(***************************************************************************)
Activate(a, path) == [a EXCEPT !.pending = @ \cup {path}]
Advance(a) == [pending |-> {}, active |-> a.active \cup a.pending]
ActIsEmpty(a) == a.pending = {} /\ a.active = {}
\* for_extensions(&[], f): the next element of every active path, removing them
ForExtensionsRoot(a) == SortedSeq({p[1] : p \in a.active})
AfterForExtensionsRoot(a) == [a EXCEPT !.active = {}]

(***************************************************************************)
(* Allocator operations (Allocate, allocator/mod.rs:49-109).               *)
(***************************************************************************)
\* an allocate() that hands the pushers to the callback in reverse peer order
NewChannelReversed(id, n) == [id |-> id, pushers |-> [k \in 1 .. n |-> n - k]]

\* allocate(): on_new_pusher is called once per known peer, in peer order
NewChannel(id, n) == [id |-> id, pushers |-> [k \in 1 .. n |-> k - 1]]

\* rescale() admitting k peers: one more pusher per new peer for every channel
BackFill(chs, from, k) ==
    [r \in 1 .. Len(chs) |->
        [chs[r] EXCEPT !.pushers = @ \o [j \in 1 .. k |-> from + j - 1]]]

(***************************************************************************)
(* Progress broadcaster handles (progress::broadcast, used by bootstrap()  *)
(* at worker.rs:485-533; behaviour from sections 3, 4.4 and 4.5 of the     *)
(* specification).  A state counts the updates consumed per sender and     *)
(* accumulates their payloads.                                             *)
(***************************************************************************)
InitialState == [cnt |-> [s \in Senders |-> 0], acc |-> 0]
\* the payload of update number q of sender s
Delta(s, q) == 1 + s + 2 * q
Update(s, q) == [src |-> s, n |-> q]
Consume(st, u) ==
    [cnt |-> [st.cnt EXCEPT ![u.src] = u.n + 1], acc |-> st.acc + Delta(u.src, u.n)]

RECURSIVE ConsumeAll(_, _)
ConsumeAll(st, us) ==
    IF us = <<>> THEN st ELSE ConsumeAll(Consume(st, Head(us)), Tail(us))

\* server handle: the raw updates of sender s with sequence numbers in [lo, hi)
RangeUpdates(s, lo, hi) == [i \in 1 .. (hi - lo) |-> Update(s, lo + i - 1)]
\* client handle: set_progcaster_state
SetProgcasterState(st, blob) == blob
\* client handle: get_worker_indices, the senders observed in the state
GetWorkerIndices(st) == {s \in Senders : st.cnt[s] > 0}
\* client handle: apply_updates_range
ApplyUpdatesRange(st, resp) == ConsumeAll(st, resp)

\* client handle: apply_stashed_progress_msgs, filtered against the state
RECURSIVE ApplyStashed(_, _)
ApplyStashed(st, msgs) ==
    IF msgs = <<>> THEN st
    ELSE ApplyStashed(IF Head(msgs).n >= st.cnt[Head(msgs).src]
                      THEN Consume(st, Head(msgs)) ELSE st,
                      Tail(msgs))

RECURSIVE StashedNumbers(_, _, _)
StashedNumbers(st, msgs, s) ==
    IF msgs = <<>> THEN <<>>
    ELSE LET m == Head(msgs)
             take == m.n >= st.cnt[m.src]
             st2 == IF take THEN Consume(st, m) ELSE st
         IN (IF take /\ m.src = s THEN <<m.n>> ELSE <<>>)
               \o StashedNumbers(st2, Tail(msgs), s)

\* the live messages of sender s on progcaster b the joiner has not pulled yet
LiveUnpulled(b, s) ==
    IF s \in joined
    THEN RangeUpdates(s, liveFrom[s][b] + pulled[b][s], sentSeq[s][b])
    ELSE <<>>

RECURSIVE Flatten(_, _)
Flatten(f, order) ==
    IF order = <<>> THEN <<>> ELSE f[Head(order)] \o Flatten(f, Tail(order))

\* client handle: get_missing_updates_ranges.  For every sender of todo seen on
\* the live channel: the gap between the state and its first live message.
FirstLive(msgs, s) ==
    LET idx == {i \in 1 .. Len(msgs) : msgs[i].src = s}
    IN IF idx = {} THEN -1
       ELSE msgs[CHOOSE i \in idx : \A j \in idx : i <= j].n
SeenLive(msgs, todo) == {s \in todo : FirstLive(msgs, s) >= 0}
MissingRanges(b, st, msgs, todo) ==
    LET seen == SortedSeq({s \in SeenLive(msgs, todo) :
                              st.cnt[s] < FirstLive(msgs, s)})
    IN [i \in 1 .. Len(seen) |->
          [b |-> b, s |-> seen[i], lo |-> st.cnt[seen[i]],
           hi |-> FirstLive(msgs, seen[i])]]

(***************************************************************************)
(* Worker::allocate / Worker::pipeline (worker.rs:88-104).                 *)
(***************************************************************************)
\* worker.rs:91, 99: an address of length zero panics, nothing is registered
AcceptableAddress(address) == Len(address) # 0

PathsInsert(p, id, addr) == MapInsert(p, id, addr)

\* ids of the channels allocated and not torn down: those waiting in
\* temp_channel_ids and those of the registered dataflows (worker.rs:94, 469)
LiveIds ==
    SeqToSet(temp_channel_ids) \cup
       UNION {SeqToSet(dataflows[d].channel_ids) : d \in DOMAIN dataflows}

\* the dataflow construction whose closure is running (worker.rs:437-441): the
\* innermost dataflow_core call that has not returned, none outside of them
Performer ==
    IF building = <<>> THEN NoIndex ELSE building[Len(building)].index

AllocateCh(id, addr) ==
    /\ pc = "idle"
    /\ AcceptableAddress(addr)
    /\ allocCalls < MaxAllocs
    /\ allocCalls' = allocCalls + 1
    /\ paths' = PathsInsert(paths, id, addr)
    /\ temp_channel_ids' = Append(temp_channel_ids, id)
    /\ channels' = Append(channels, NewChannel(id, peers))
    /\ lastAddr' = [lastAddr EXCEPT ![id] = addr]
    /\ allocHist' = [allocHist EXCEPT !.temp = Append(@, addr),
                                       !.by = Append(@, Performer),
                                       !.collided = @ \/ id \in LiveIds]
    /\ UNCHANGED notWorker
    /\ UNCHANGED <<identifiers, dataflows, dataflow_counter, activations,
                   active_dataflows, building, events, peers, pendingConn, pc,
                   duration, ret, oplog, dec, tornDfs, tornIds, drained, torndown,
                   rescaleFrom>>

PipelineCh(id, addr) ==
    /\ pc = "idle"
    /\ AcceptableAddress(addr)
    /\ allocCalls < MaxAllocs
    /\ allocCalls' = allocCalls + 1
    /\ paths' = PathsInsert(paths, id, addr)
    /\ temp_channel_ids' = Append(temp_channel_ids, id)
    /\ lastAddr' = [lastAddr EXCEPT ![id] = addr]
    /\ allocHist' = [allocHist EXCEPT !.temp = Append(@, addr),
                                       !.by = Append(@, Performer),
                                       !.collided = @ \/ id \in LiveIds]
    /\ UNCHANGED notWorker
    /\ UNCHANGED <<identifiers, dataflows, dataflow_counter, activations,
                   active_dataflows, building, events, peers, pendingConn,
                   channels, pc, duration, ret, oplog, dec, tornDfs, tornIds,
                   drained, torndown, rescaleFrom>>

(***************************************************************************)
(* Worker::dataflow_core (worker.rs:419-475), split at the user closure.   *)
(***************************************************************************)
\* an index allocation that hands out index 0 every time
AllocateDataflowIndexZero(counter) == 0

\* worker.rs:542-546: the counter is incremented, its former value is the index
AllocateDataflowIndex(counter) == counter

DataflowBegin ==
    /\ pc = "idle"
    /\ dataflow_counter < MaxDataflows
    /\ dataflow_counter' = dataflow_counter + 1
    /\ identifiers' = identifiers + 1
    /\ building' = Append(building,
                          [index |-> AllocateDataflowIndex(dataflow_counter),
                           identifier |-> identifiers])
    /\ UNCHANGED allocHist
    /\ UNCHANGED notWorker
    /\ UNCHANGED <<allocCalls, paths, temp_channel_ids, dataflows, activations,
                   active_dataflows, events, peers, pendingConn, channels, pc,
                   duration, ret, oplog, dec, tornDfs, tornIds, drained, torndown,
                   rescaleFrom, lastAddr>>

NewWrapper(identifier, ids) ==
    [identifier |-> identifier, operate |-> TRUE, resources |-> TRUE,
     channel_ids |-> ids]

DataflowEnd ==
    /\ pc = "idle"
    /\ building # <<>>
    /\ LET top == building[Len(building)]
       IN dataflows' = MapInsert(dataflows, top.index,
                                 NewWrapper(top.identifier, temp_channel_ids))
    /\ temp_channel_ids' = <<>>
    /\ building' = SubSeq(building, 1, Len(building) - 1)
    /\ allocHist' = [allocHist EXCEPT
                        !.temp = <<>>,
                        !.by = <<>>,
                        !.of = MapInsert(@, building[Len(building)].index,
                                         allocHist.temp)]
    /\ UNCHANGED notWorker
    /\ UNCHANGED <<allocCalls, paths, identifiers, dataflow_counter, activations,
                   active_dataflows, events, peers, pendingConn, channels, pc,
                   duration, ret, oplog, dec, tornDfs, tornIds, drained, torndown,
                   rescaleFrom, lastAddr>>

\* Scheduler::activations(): code outside a step activates an operator
UserActivate(addr) ==
    /\ pc = "idle"
    /\ addr \notin activations.pending
    /\ activations' = Activate(activations, addr)
    /\ UNCHANGED allocHist
    /\ UNCHANGED notWorker
    /\ UNCHANGED <<allocCalls, paths, temp_channel_ids, identifiers, dataflows,
                   dataflow_counter, active_dataflows, building, events, peers,
                   pendingConn, channels, pc, duration, ret, oplog, dec, tornDfs,
                   tornIds, drained, torndown, rescaleFrom, lastAddr>>

\* a network thread completes the connection of a new peer.  The worker looks
\* at completed connections in rescale only (worker.rs:202), so a connection
\* completed during a call is the same as one completed right after it.
Connect ==
    /\ pc = "idle"
    /\ peers + pendingConn < InitPeers + MaxJoin
    /\ pendingConn' = pendingConn + 1
    /\ UNCHANGED allocHist
    /\ UNCHANGED notWorker
    /\ UNCHANGED <<allocCalls, paths, temp_channel_ids, identifiers, dataflows,
                   dataflow_counter, activations, active_dataflows, building,
                   events, peers, channels, pc, duration, ret, oplog, dec,
                   tornDfs, tornIds, drained, torndown, rescaleFrom, lastAddr>>

(***************************************************************************)
(* Worker::step_or_park (worker.rs:191-271), one action per phase.  A call *)
(* runs rescale, receive, the drain of the event queue, advance, then      *)
(* either await_events or the scheduling of the active dataflows, and      *)
(* release.  Worker::step (worker.rs:160-162) is the call with "zero".     *)
(***************************************************************************)
\* a call that starts without allocator.rescale(..)
StepWithoutRescale(d) ==
    /\ pc = "idle"
    /\ building = <<>>
    /\ duration' = d
    /\ rescaleFrom' = [peers |-> peers,
                       pushers |-> [r \in 1 .. Len(channels) |->
                                        Len(channels[r].pushers)]]
    /\ oplog' = <<>>
    /\ dec' = [actEmpty |-> FALSE, hasDfs |-> FALSE]
    /\ tornDfs' = {}
    /\ tornIds' = {}
    /\ drained' = NoDrain
    /\ pc' = "receive"
    /\ UNCHANGED allocHist
    /\ UNCHANGED notWorker
    /\ UNCHANGED <<torndown, allocCalls, paths, temp_channel_ids, identifiers,
                   dataflows, dataflow_counter, activations, active_dataflows,
                   building, events, ret, lastAddr, peers, pendingConn, channels>>

\* worker.rs:194-203: allocator.rescale(..) admits every connected new peer
StepRescale(d) ==
    /\ pc = "idle"
    /\ building = <<>>
    /\ duration' = d
    /\ peers' = peers + pendingConn
    /\ pendingConn' = 0
    /\ channels' = BackFill(channels, peers, pendingConn)
    /\ rescaleFrom' = [peers |-> peers,
                       pushers |-> [r \in 1 .. Len(channels) |->
                                        Len(channels[r].pushers)]]
    /\ oplog' = <<"rescale">>
    /\ dec' = [actEmpty |-> FALSE, hasDfs |-> FALSE]
    /\ tornDfs' = {}
    /\ tornIds' = {}
    /\ drained' = NoDrain
    /\ pc' = "receive"
    /\ UNCHANGED allocHist
    /\ UNCHANGED notWorker
    /\ UNCHANGED <<torndown, allocCalls, paths, temp_channel_ids, identifiers, dataflows,
                   dataflow_counter, activations, active_dataflows, building,
                   events, ret, lastAddr>>

\* worker.rs:205: allocator.receive() surfaces what the network delivered
StepReceive ==
    /\ pc = "receive"
    /\ \E more \in EventBatches :
          /\ Len(events) + Len(more) <= MaxEvents
          /\ events' = events \o more
    /\ oplog' = Append(oplog, "receive")
    /\ pc' = "drain"
    /\ UNCHANGED allocHist
    /\ UNCHANGED notWorker
    /\ UNCHANGED <<allocCalls, paths, temp_channel_ids, identifiers, dataflows,
                   dataflow_counter, activations, active_dataflows, building,
                   peers, pendingConn, channels, duration, ret, dec, tornDfs,
                   tornIds, drained, torndown, rescaleFrom, lastAddr>>

\* a drain that stops activating at the first event without a path
RECURSIVE DrainUntilUnknown(_, _, _)
DrainUntilUnknown(a, evs, p) ==
    IF evs = <<>> THEN a
    ELSE IF Head(evs) \in DOMAIN p
         THEN DrainUntilUnknown(Activate(a, p[Head(evs)]), Tail(evs), p)
         ELSE a

\* worker.rs:210-222: every drained event whose channel has a path activates it
RECURSIVE DrainActivate(_, _, _)
DrainActivate(a, evs, p) ==
    IF evs = <<>> THEN a
    ELSE DrainActivate(IF Head(evs) \in DOMAIN p THEN Activate(a, p[Head(evs)])
                       ELSE a,
                       Tail(evs), p)

StepDrain ==
    /\ pc = "drain"
    /\ activations' = DrainActivate(activations, events, paths)
    /\ drained' = [before |-> activations.pending, chans |-> SeqToSet(events)]
    /\ events' = <<>>
    /\ oplog' = Append(oplog, "drain")
    /\ pc' = "advance"
    /\ UNCHANGED allocHist
    /\ UNCHANGED notWorker
    /\ UNCHANGED <<torndown, allocCalls, paths, temp_channel_ids, identifiers, dataflows,
                   dataflow_counter, active_dataflows, building, peers,
                   pendingConn, channels, duration, ret, dec, tornDfs, tornIds,
                   rescaleFrom, lastAddr>>

\* worker.rs:226-228
StepAdvance ==
    /\ pc = "advance"
    /\ activations' = Advance(activations)
    /\ oplog' = Append(oplog, "advance")
    /\ pc' = "decide"
    /\ UNCHANGED allocHist
    /\ UNCHANGED notWorker
    /\ UNCHANGED <<allocCalls, paths, temp_channel_ids, identifiers, dataflows,
                   dataflow_counter, active_dataflows, building, events, peers,
                   pendingConn, channels, duration, ret, dec, tornDfs, tornIds,
                   drained, torndown, rescaleFrom, lastAddr>>

\* a park test that forgets the timeout
ShouldParkIgnoringTimeout(actEmpty, hasDfs, d) == actEmpty /\ hasDfs

\* a park test that forgets the activations
ShouldParkIgnoringActivations(actEmpty, hasDfs, d) == hasDfs /\ d # "zero"

\* worker.rs:231: the park test
ShouldPark(actEmpty, hasDfs, d) == actEmpty /\ hasDfs /\ d # "zero"

\* a parking call that returns right after await_events, without release()
StepParkEarlyReturn ==
    /\ pc = "decide"
    /\ ShouldPark(ActIsEmpty(activations), DOMAIN dataflows # {}, duration)
    /\ dec' = [actEmpty |-> ActIsEmpty(activations),
               hasDfs |-> DOMAIN dataflows # {}]
    /\ oplog' = Append(oplog, "park")
    /\ ret' = (DOMAIN dataflows # {})
    /\ pc' = "returned"
    /\ UNCHANGED allocHist
    /\ UNCHANGED notWorker
    /\ UNCHANGED <<allocCalls, paths, temp_channel_ids, identifiers, dataflows,
                   dataflow_counter, activations, active_dataflows, building,
                   events, peers, pendingConn, channels, duration, tornDfs,
                   tornIds, drained, torndown, rescaleFrom, lastAddr>>

\* worker.rs:231-243: await_events(duration)
StepPark ==
    /\ pc = "decide"
    /\ ShouldPark(ActIsEmpty(activations), DOMAIN dataflows # {}, duration)
    /\ dec' = [actEmpty |-> ActIsEmpty(activations),
               hasDfs |-> DOMAIN dataflows # {}]
    /\ oplog' = Append(oplog, "park")
    /\ pc' = "release"
    /\ UNCHANGED allocHist
    /\ UNCHANGED notWorker
    /\ UNCHANGED <<allocCalls, paths, temp_channel_ids, identifiers, dataflows,
                   dataflow_counter, activations, active_dataflows, building,
                   events, peers, pendingConn, channels, duration, ret, tornDfs,
                   tornIds, drained, torndown, rescaleFrom, lastAddr>>

\* worker.rs:244-249: for_extensions(&[], ..) collects the active dataflows
StepCollect ==
    /\ pc = "decide"
    /\ ~ShouldPark(ActIsEmpty(activations), DOMAIN dataflows # {}, duration)
    /\ dec' = [actEmpty |-> ActIsEmpty(activations),
               hasDfs |-> DOMAIN dataflows # {}]
    /\ active_dataflows' = active_dataflows \o ForExtensionsRoot(activations)
    /\ activations' = AfterForExtensionsRoot(activations)
    /\ oplog' = Append(oplog, "for_extensions")
    /\ pc' = "schedule"
    /\ UNCHANGED allocHist
    /\ UNCHANGED notWorker
    /\ UNCHANGED <<allocCalls, paths, temp_channel_ids, identifiers, dataflows,
                   dataflow_counter, building, events, peers, pendingConn,
                   channels, duration, ret, tornDfs, tornIds, drained, torndown,
                   rescaleFrom, lastAddr>>

\* Wrapper::step (worker.rs:582-601): op is what the operator's schedule() returns
WrapperIncomplete(w, op) == IF w.operate THEN op ELSE FALSE
WrapperAfterStep(w, op) ==
    IF WrapperIncomplete(w, op) THEN w
    ELSE [w EXCEPT !.operate = FALSE, !.resources = FALSE]

\* a teardown that clears the whole path map
RemoveAllPaths(p, ids) == EmptyMap

\* a teardown that leaves the path map alone
RemoveNoPaths(p, ids) == p

\* worker.rs:257-260: the channel ids of a completed dataflow leave the path map
RemoveChannelPaths(p, ids) == [x \in DOMAIN p \ SeqToSet(ids) |-> p[x]]

\* worker.rs:252-264: one iteration of the loop over active_dataflows
StepSchedule ==
    /\ pc = "schedule"
    /\ active_dataflows # <<>>
    /\ LET index == Head(active_dataflows)
       IN /\ active_dataflows' = Tail(active_dataflows)
          /\ IF index \in DOMAIN dataflows
             THEN \E op \in BOOLEAN, again \in BOOLEAN :
                    LET w == dataflows[index]
                        incomplete == WrapperIncomplete(w, op)
                    IN /\ oplog' = Append(oplog, "schedule")
                       /\ IF incomplete
                          THEN /\ dataflows' = [dataflows EXCEPT
                                                ![index] = WrapperAfterStep(w, op)]
                               /\ activations' =
                                    IF again THEN Activate(activations, <<index>>)
                                    ELSE activations
                               /\ UNCHANGED <<paths, tornDfs, tornIds, lastAddr,
                                              torndown>>
                          ELSE /\ again = FALSE
                               /\ paths' = RemoveChannelPaths(paths, w.channel_ids)
                               /\ dataflows' = MapRemove(dataflows, index)
                               /\ tornDfs' = tornDfs \cup {index}
                               /\ tornIds' = tornIds \cup SeqToSet(w.channel_ids)
                               /\ torndown' = torndown \cup SeqToSet(w.channel_ids)
                               /\ lastAddr' = [c \in Ids |->
                                    IF c \in SeqToSet(w.channel_ids) THEN <<>>
                                    ELSE lastAddr[c]]
                               /\ UNCHANGED activations
             ELSE UNCHANGED <<paths, dataflows, activations, oplog, tornDfs,
                              tornIds, lastAddr, torndown>>
    /\ allocHist' = [allocHist EXCEPT !.of = [d \in DOMAIN dataflows' |-> @[d]]]
    /\ UNCHANGED notWorker
    /\ UNCHANGED <<allocCalls, temp_channel_ids, identifiers, dataflow_counter,
                   building, events, peers, pendingConn, channels, pc, duration,
                   ret, dec, drained, rescaleFrom>>

\* a call that answers with the registry as it was when it chose not to park
StepReleaseStale ==
    /\ \/ pc = "release"
       \/ pc = "schedule" /\ active_dataflows = <<>>
    /\ oplog' = Append(oplog, "release")
    /\ ret' = dec.hasDfs
    /\ pc' = "returned"
    /\ UNCHANGED allocHist
    /\ UNCHANGED notWorker
    /\ UNCHANGED <<allocCalls, paths, temp_channel_ids, identifiers, dataflows,
                   dataflow_counter, activations, active_dataflows, building,
                   events, peers, pendingConn, channels, duration, dec, tornDfs,
                   tornIds, drained, torndown, rescaleFrom, lastAddr>>

\* worker.rs:267-270: release(), and the call returns whether dataflows remain
StepRelease ==
    /\ \/ pc = "release"
       \/ pc = "schedule" /\ active_dataflows = <<>>
    /\ oplog' = Append(oplog, "release")
    /\ ret' = (DOMAIN dataflows # {})
    /\ pc' = "returned"
    /\ UNCHANGED allocHist
    /\ UNCHANGED notWorker
    /\ UNCHANGED <<allocCalls, paths, temp_channel_ids, identifiers, dataflows,
                   dataflow_counter, activations, active_dataflows, building,
                   events, peers, pendingConn, channels, duration, dec, tornDfs,
                   tornIds, drained, torndown, rescaleFrom, lastAddr>>

\* the caller has the result; the history of the call is forgotten
StepReturn ==
    /\ pc = "returned"
    /\ pc' = "idle"
    /\ duration' = "zero"
    /\ ret' = FALSE
    /\ oplog' = <<>>
    /\ dec' = [actEmpty |-> FALSE, hasDfs |-> FALSE]
    /\ tornDfs' = {}
    /\ tornIds' = {}
    /\ drained' = NoDrain
    /\ rescaleFrom' = [peers |-> peers, pushers |-> <<>>]
    /\ UNCHANGED allocHist
    /\ UNCHANGED notWorker
    /\ UNCHANGED <<torndown, allocCalls, paths, temp_channel_ids, identifiers, dataflows,
                   dataflow_counter, activations, active_dataflows, building,
                   events, peers, pendingConn, channels, lastAddr>>

(***************************************************************************)
(* The worker specification.                                               *)
(***************************************************************************)
WorkerInit ==
    /\ paths = EmptyMap
    /\ temp_channel_ids = <<>>
    /\ identifiers = 0
    /\ dataflows = EmptyMap
    /\ dataflow_counter = 0
    /\ activations = [pending |-> {}, active |-> {}]
    /\ active_dataflows = <<>>
    /\ building = <<>>
    /\ allocCalls = 0
    /\ events = <<>>
    /\ peers = InitPeers
    /\ pendingConn = 0
    /\ channels = <<>>
    /\ pc = "idle"
    /\ duration = "zero"
    /\ ret = FALSE
    /\ oplog = <<>>
    /\ dec = [actEmpty |-> FALSE, hasDfs |-> FALSE]
    /\ tornDfs = {}
    /\ tornIds = {}
    /\ drained = NoDrain
    /\ torndown = {}
    /\ rescaleFrom = [peers |-> InitPeers, pushers |-> <<>>]
    /\ lastAddr = [c \in Ids |-> <<>>]
    /\ allocHist = [temp |-> <<>>, of |-> EmptyMap, by |-> <<>>,
                    collided |-> FALSE]

\* the workers of the message exchange have not started
CommIdle ==
    /\ senders = [w \in Workers |-> <<>>]
    /\ pushedCount = [w \in Workers |-> [v \in Workers |-> 0]]
    /\ wire = [w \in Workers |-> [v \in Workers |-> <<>>]]
    /\ arrived = [w \in Workers |-> <<>>]
    /\ surfaced = [w \in Workers |-> <<>>]
    /\ received = [w \in Workers |-> <<>>]
    /\ cpc = [w \in Workers |-> "start"]

\* nobody has joined, no progress update was sent, bootstrap() was not called
BootIdle ==
    /\ sentSeq = [s \in Senders |-> [b \in Progcasters |-> 0]]
    /\ joined = {}
    /\ liveFrom = [s \in Senders |-> [b \in Progcasters |-> 0]]
    /\ donorState = [b \in Progcasters |-> InitialState]
    /\ serverPc = "unborn"
    /\ stateChan = NoMsg
    /\ reqChan = NoMsg
    /\ respChan = NoMsg
    /\ jpc = "idle"
    /\ jstate = [b \in Progcasters |-> InitialState]
    /\ stash = [b \in Progcasters |-> <<>>]
    /\ pulled = [b \in Progcasters |-> [s \in Senders |-> 0]]
    /\ progcasters_left = {}
    /\ progcaster = NoProgcaster
    /\ worker_todo = {}
    /\ ranges = <<>>
    /\ jlog = [b \in Progcasters |-> [s \in Senders |-> <<>>]]
    /\ blog = [b \in Progcasters |-> <<>>]
    /\ snapshot = NoMsg
    /\ wset = [b \in Progcasters |-> {}]
    /\ replayed = [b \in Progcasters |-> <<>>]

\* the initial workers run, no joiner was launched
ClusterIdle ==
    /\ indexOf = [m \in Members |-> IF m \in Founders THEN m - 1 ELSE NoIndex]
    /\ peersOf = [m \in Members |-> IF m \in Founders THEN InitPeers ELSE 0]
    /\ conn = [m \in Members |-> <<>>]
    /\ assigned = [m \in Members |-> [j \in Members |-> NoIndex]]
    /\ pullersOf = [m \in Members |-> 0]
    /\ pushersOf = [m \in Members |-> <<>>]
    /\ mailbox = [m \in Members |-> <<>>]
    /\ observed = [m \in Members |-> <<>>]

\* step_while was not called
StepWhileIdle ==
    /\ swpc = "idle"
    /\ budget = 0
    /\ calledWith = 0
    /\ evals = 0
    /\ steps = 0
    /\ swdec = [actEmpty |-> FALSE, hasDfs |-> FALSE]
    /\ blocked = FALSE

\* neither initialize nor initialize_from was called
GuardsIdle ==
    /\ gpc = "start"
    /\ config = NoConfig
    /\ faults = {}
    /\ clientThreads = 0
    /\ builders = 0
    /\ endpoints = NoEndpoints
    /\ thread = [i \in 1 .. MaxThreads |-> "unborn"]
    /\ guards = <<>>
    /\ joinCount = [i \in 1 .. MaxThreads |-> 0]
    /\ detached = {}
    /\ results = <<>>

\* the fields of Worker (worker.rs:60-83) whose content the handles are
\* compared on
Fields ==
    {"paths", "identifiers", "dataflows", "dataflow_counter", "activations",
     "temp_channel_ids", "progcaster_client_handles", "progcaster_server_handles"}

\* worker.rs:120-135: the content of the fields of Worker::new
NewField(f) ==
    IF f \in {"identifiers", "dataflow_counter"} THEN 0
    ELSE IF f = "temp_channel_ids" THEN <<>>
    ELSE {}

\* Worker::new has run, no clone exists
HandlesIdle ==
    /\ workerHandles = {1}
    /\ cellOf = [h \in 1 .. MaxHandles |-> [f \in Fields |-> 1]]
    /\ heap = [f \in Fields |-> [c \in 1 .. MaxHandles |-> NewField(f)]]
    /\ issued = <<>>
    /\ wrappers = [d \in DfIdx |-> [operate |-> FALSE, resources |-> FALSE]]
    /\ dropLog = [d \in DfIdx |-> <<>>]
    /\ lastSchedule = [d \in DfIdx |-> "none"]

Init ==
    /\ WorkerInit /\ CommIdle /\ BootIdle /\ ClusterIdle /\ StepWhileIdle
    /\ GuardsIdle /\ HandlesIdle

Next ==
    \/ \E id \in Ids, addr \in Addrs \cup {<<>>} : AllocateCh(id, addr)
    \/ \E id \in Ids, addr \in Addrs \cup {<<>>} : PipelineCh(id, addr)
    \/ DataflowBegin
    \/ DataflowEnd
    \/ \E addr \in Roots : UserActivate(addr)
    \/ Connect
    \/ \E d \in Durations : StepRescale(d)
    \/ StepReceive
    \/ StepDrain
    \/ StepAdvance
    \/ StepPark
    \/ StepCollect
    \/ StepSchedule
    \/ StepRelease
    \/ StepReturn

Spec == Init /\ [][Next]_vars

(***************************************************************************)
(* Workers exchanging messages over channel 0: the doc example of          *)
(* initialize (initialize.rs:179-219) with any number of sends and any     *)
(* interleaving of sends with receive()/recv()/release() cycles.  What a   *)
(* pusher, the transport and the puller do is taken from section 4.1 of    *)
(* the specification and the contract of Allocate (mod.rs:78-97).          *)
(***************************************************************************)
\* message number n of worker src, with the text "hello, i" of the example
Msg(src, n, i) == [src |-> src, n |-> n, hello |-> i]

\* a pusher appends to the queue of its (source, target) link
PushTo(q, m) == Append(q, m)
\* the transport hands over the oldest message of a link
Arrive(link, inbox) == [link |-> Tail(link), inbox |-> Append(inbox, Head(link))]
\* a receive() that puts what arrived in front of what is still unconsumed
SurfaceInFront(inbox, visible) == [inbox |-> <<>>, visible |-> inbox \o visible]
\* receive(): everything that arrived becomes visible to the puller, in order
Surface(inbox, visible) == [inbox |-> <<>>, visible |-> visible \o inbox]
\* recv(): the puller yields the oldest visible message
PullFrom(visible) == [msg |-> Head(visible), visible |-> Tail(visible)]
\* a release() that discards the unconsumed messages
DropOnRelease(visible) == <<>>
\* release(): unconsumed messages are kept for the next batch
KeepOnRelease(visible) == visible

\* initialize.rs:187-197: allocate(0, on_new_pusher); the callback stores pushers
ExAllocate(w) ==
    /\ cpc[w] = "start"
    /\ senders' = [senders EXCEPT ![w] = NewChannel(0, NumWorkers).pushers]
    /\ cpc' = [cpc EXCEPT ![w] = "run"]
    /\ UNCHANGED <<pushedCount, wire, arrived, surfaced, received>>
    /\ UNCHANGED notComm

\* initialize.rs:201-202: senders[j].send(..)
ExSend(w, j) ==
    /\ cpc[w] = "run"
    /\ j \in 1 .. Len(senders[w])
    /\ LET t == senders[w][j]
       IN /\ SumOver(pushedCount[w], Workers) < MaxMsgs
          /\ wire' = [wire EXCEPT ![w][t] = PushTo(@, Msg(w, pushedCount[w][t], j - 1))]
          /\ pushedCount' = [pushedCount EXCEPT ![w][t] = @ + 1]
    /\ UNCHANGED <<senders, arrived, surfaced, received, cpc>>
    /\ UNCHANGED notComm

\* the shared queue or the network threads move a message to its target
Transport(w, t) ==
    /\ wire[w][t] # <<>>
    /\ LET a == Arrive(wire[w][t], arrived[t])
       IN /\ wire' = [wire EXCEPT ![w][t] = a.link]
          /\ arrived' = [arrived EXCEPT ![t] = a.inbox]
    /\ UNCHANGED <<senders, pushedCount, surfaced, received, cpc>>
    /\ UNCHANGED notComm

\* initialize.rs:208: allocator.receive()
ExReceive(w) ==
    /\ cpc[w] = "run"
    /\ LET r == Surface(arrived[w], surfaced[w])
       IN /\ arrived' = [arrived EXCEPT ![w] = r.inbox]
          /\ surfaced' = [surfaced EXCEPT ![w] = r.visible]
    /\ cpc' = [cpc EXCEPT ![w] = "recv"]
    /\ UNCHANGED <<senders, pushedCount, wire, received>>
    /\ UNCHANGED notComm

\* initialize.rs:209-213: receiver.recv() yields a message or None
ExRecv(w) ==
    /\ cpc[w] = "recv"
    /\ IF surfaced[w] # <<>>
       THEN LET r == PullFrom(surfaced[w])
            IN /\ received' = [received EXCEPT ![w] = Append(@, r.msg)]
               /\ surfaced' = [surfaced EXCEPT ![w] = r.visible]
       ELSE UNCHANGED <<received, surfaced>>
    /\ cpc' = [cpc EXCEPT ![w] = "release"]
    /\ UNCHANGED <<senders, pushedCount, wire, arrived>>
    /\ UNCHANGED notComm

\* initialize.rs:214: allocator.release()
ExRelease(w) ==
    /\ cpc[w] = "release"
    /\ surfaced' = [surfaced EXCEPT ![w] = KeepOnRelease(@)]
    /\ cpc' = [cpc EXCEPT ![w] = "run"]
    /\ UNCHANGED <<senders, pushedCount, wire, arrived, received>>
    /\ UNCHANGED notComm

NextComm ==
    \/ \E w \in Workers : ExAllocate(w)
    \/ \E w \in Workers, j \in 1 .. NumWorkers : ExSend(w, j)
    \/ \E w \in Workers, t \in Workers : Transport(w, t)
    \/ \E w \in Workers : ExReceive(w)
    \/ \E w \in Workers : ExRecv(w)
    \/ \E w \in Workers : ExRelease(w)

SpecComm == Init /\ [][NextComm]_vars

(***************************************************************************)
(* The cluster a joiner meets: the existing workers broadcast progress     *)
(* updates and admit the joiner in their rescale; the donor consumes the   *)
(* updates and its bootstrap server thread answers the joiner (section 4.5 *)
(* of the specification).                                                  *)
(***************************************************************************)
\* sender s broadcasts its next progress update on progcaster b
Broadcast(s, b) ==
    /\ SumOver([x \in Senders |-> SumOver(sentSeq[x], Progcasters)], Senders) < MaxUpdates
    /\ sentSeq' = [sentSeq EXCEPT ![s][b] = @ + 1]
    /\ UNCHANGED <<joined, liveFrom, donorState, serverPc, stateChan, reqChan,
                   respChan, jpc, jstate, stash, pulled, progcasters_left,
                   progcaster, worker_todo, ranges, jlog, blog, snapshot, wset,
                   replayed>>
    /\ UNCHANGED notBoot

\* the donor's progcaster b consumes the next update of sender s
DonorPull(b, s) ==
    /\ donorState[b].cnt[s] < sentSeq[s][b]
    /\ donorState' = [donorState EXCEPT
                         ![b] = Consume(@, Update(s, donorState[b].cnt[s]))]
    /\ UNCHANGED <<sentSeq, joined, liveFrom, serverPc, stateChan, reqChan,
                   respChan, jpc, jstate, stash, pulled, progcasters_left,
                   progcaster, worker_todo, ranges, jlog, blog, snapshot, wset,
                   replayed>>
    /\ UNCHANGED notBoot

\* rescale of sender s: its channels get a pusher to the joiner; on the donor
\* on_new_peer spawns the bootstrap server thread
AdmitJoiner(s) ==
    /\ s \notin joined
    /\ joined' = joined \cup {s}
    /\ liveFrom' = [liveFrom EXCEPT ![s] = sentSeq[s]]
    /\ serverPc' = IF s = Donor THEN "snapshot" ELSE serverPc
    /\ UNCHANGED <<sentSeq, donorState, stateChan, reqChan,
                   respChan, jpc, jstate, stash, pulled, progcasters_left,
                   progcaster, worker_todo, ranges, jlog, blog, snapshot, wset,
                   replayed>>
    /\ UNCHANGED notBoot

\* bootstrap server: STATE_SNAPSHOT with the state of every progcaster
ServerSendStates ==
    /\ serverPc = "snapshot"
    /\ stateChan' = <<donorState>>
    /\ snapshot' = <<donorState>>
    /\ serverPc' = "serve"
    /\ UNCHANGED <<sentSeq, joined, liveFrom, donorState, reqChan,
                   respChan, jpc, jstate, stash, pulled, progcasters_left,
                   progcaster, worker_todo, ranges, jlog, blog, wset,
                   replayed>>
    /\ UNCHANGED notBoot

\* bootstrap server: RANGE_REQ answered with the raw updates of the range
ServerAnswer ==
    /\ serverPc = "serve"
    /\ reqChan # NoMsg
    /\ donorState[reqChan[1].b].cnt[reqChan[1].s] >= reqChan[1].hi
    /\ respChan' = <<RangeUpdates(reqChan[1].s, reqChan[1].lo, reqChan[1].hi)>>
    /\ reqChan' = NoMsg
    /\ UNCHANGED <<sentSeq, joined, liveFrom, donorState, serverPc, stateChan,
                   jpc, jstate, stash, pulled, progcasters_left,
                   progcaster, worker_todo, ranges, jlog, blog, snapshot, wset,
                   replayed>>
    /\ UNCHANGED notBoot

(***************************************************************************)
(* Worker::bootstrap (worker.rs:478-540) on the joiner.                    *)
(***************************************************************************)
\* a bootstrap() that answers true when there is no bootstrap endpoint
BootEnterTrue(endpoint) ==
    /\ jpc = "idle"
    /\ jpc' = IF endpoint THEN "states" ELSE "returned_true"
    /\ UNCHANGED <<sentSeq, joined, liveFrom, donorState, serverPc, stateChan,
                   reqChan, respChan, jstate, stash, pulled, progcasters_left,
                   progcaster, worker_todo, ranges, jlog, blog, snapshot, wset,
                   replayed>>
    /\ UNCHANGED notBoot

\* worker.rs:481-483, 537-539: without a bootstrap endpoint the result is false
BootEnter(endpoint) ==
    /\ jpc = "idle"
    /\ jpc' = IF endpoint THEN "states" ELSE "returned_false"
    /\ UNCHANGED <<sentSeq, joined, liveFrom, donorState, serverPc, stateChan,
                   reqChan, respChan, jstate, stash, pulled, progcasters_left,
                   progcaster, worker_todo, ranges, jlog, blog, snapshot, wset,
                   replayed>>
    /\ UNCHANGED notBoot

\* worker.rs:489-491: every received state goes to the handle of its id
InstallFirstOnly(handles, states) ==
    [b \in Progcasters |->
        IF b = CHOOSE m \in Progcasters : \A o \in Progcasters : m <= o
        THEN SetProgcasterState(handles[b], states[b]) ELSE handles[b]]

InstallStates(handles, states) ==
    [b \in Progcasters |-> SetProgcasterState(handles[b], states[b])]

\* worker.rs:485-491
BootRecvStates ==
    /\ jpc = "states"
    /\ stateChan # NoMsg
    /\ jstate' = InstallStates(jstate, stateChan[1])
    /\ stateChan' = NoMsg
    /\ blog' = [b \in Progcasters |-> Append(blog[b], "install")]
    /\ jlog' = [b \in Progcasters |-> [s \in Senders |->
                   [i \in 1 .. stateChan[1][b].cnt[s] |-> i - 1]]]
    /\ progcasters_left' = Progcasters
    /\ jpc' = "next"
    /\ UNCHANGED <<sentSeq, joined, liveFrom, donorState, serverPc,
                   reqChan, respChan, stash, pulled,
                   progcaster, worker_todo, ranges, snapshot, wset,
                   replayed>>
    /\ UNCHANGED notBoot

\* worker.rs:507-511: the next progcaster, in the map's iteration order
BootNextProgcaster(b) ==
    /\ jpc = "next"
    /\ b \in progcasters_left
    /\ progcasters_left' = progcasters_left \ {b}
    /\ progcaster' = b
    /\ worker_todo' = GetWorkerIndices(jstate[b])
    /\ wset' = [wset EXCEPT ![b] = GetWorkerIndices(jstate[b])]
    /\ jpc' = "loop"
    /\ UNCHANGED <<sentSeq, joined, liveFrom, donorState, serverPc, stateChan,
                   reqChan, respChan, jstate, stash, pulled,
                   ranges, jlog, blog, snapshot, replayed>>
    /\ UNCHANGED notBoot

\* worker.rs:513, the negated loop condition
LoopDoneWithOneLeft(todo) == Cardinality(todo) <= 1

LoopDone(todo) == todo = {}

\* what receive() and get_missing_updates_ranges leave in the stash of b
StashAfterReceive(b) ==
    stash[b] \o Flatten([s \in Senders |-> LiveUnpulled(b, s)], SortedSeq(Senders))

\* worker.rs:513-520 on a timeout: gives up on the senders not seen
BootReceiveOrGiveUp ==
    /\ jpc = "loop"
    /\ ~LoopDone(worker_todo)
    /\ LET b == progcaster
           st == StashAfterReceive(b)
           rs == MissingRanges(b, jstate[b], st, worker_todo)
       IN /\ stash' = [stash EXCEPT ![b] = st]
          /\ pulled' = [pulled EXCEPT ![b] =
                           [s \in Senders |-> @[s] + Len(LiveUnpulled(b, s))]]
          /\ worker_todo' = {}
          /\ ranges' = rs
          /\ jpc' = IF rs = <<>> THEN "loop" ELSE "ranges"
    /\ UNCHANGED <<sentSeq, joined, liveFrom, donorState, serverPc, stateChan,
                   reqChan, respChan, jstate, progcasters_left,
                   progcaster, jlog, blog, snapshot, wset, replayed>>
    /\ UNCHANGED notBoot

\* worker.rs:513-520: receive(), then the ranges of the senders seen live
BootReceive ==
    /\ jpc = "loop"
    /\ ~LoopDone(worker_todo)
    /\ LET b == progcaster
           st == StashAfterReceive(b)
           rs == MissingRanges(b, jstate[b], st, worker_todo)
       IN /\ stash' = [stash EXCEPT ![b] = st]
          /\ pulled' = [pulled EXCEPT ![b] =
                           [s \in Senders |-> @[s] + Len(LiveUnpulled(b, s))]]
          /\ worker_todo' = worker_todo \ SeenLive(st, worker_todo)
          /\ ranges' = rs
          /\ jpc' = IF rs = <<>> THEN "loop" ELSE "ranges"
    /\ UNCHANGED <<sentSeq, joined, liveFrom, donorState, serverPc, stateChan,
                   reqChan, respChan, jstate, progcasters_left,
                   progcaster, jlog, blog, snapshot, wset, replayed>>
    /\ UNCHANGED notBoot

\* a joiner that sends the request of a range and moves on to the next range
BootSendRequestNoWait ==
    /\ jpc = "ranges"
    /\ reqChan' = <<Head(ranges)>>
    /\ blog' = [blog EXCEPT ![progcaster] = Append(@, "request")]
    /\ ranges' = Tail(ranges)
    /\ jpc' = IF Tail(ranges) = <<>> THEN "loop" ELSE "ranges"
    /\ UNCHANGED <<sentSeq, joined, liveFrom, donorState, serverPc, stateChan,
                   respChan, jstate, stash, pulled, progcasters_left,
                   progcaster, worker_todo, jlog, snapshot, wset,
                   replayed>>
    /\ UNCHANGED notBoot

\* worker.rs:520-522: send_range_request
BootSendRequest ==
    /\ jpc = "ranges"
    /\ reqChan' = <<Head(ranges)>>
    /\ blog' = [blog EXCEPT ![progcaster] = Append(@, "request")]
    /\ jpc' = "await"
    /\ UNCHANGED <<sentSeq, joined, liveFrom, donorState, serverPc, stateChan,
                   respChan, jstate, stash, pulled, progcasters_left,
                   progcaster, worker_todo, ranges, jlog, snapshot, wset,
                   replayed>>
    /\ UNCHANGED notBoot

\* worker.rs:524 without 527: the response is received and dropped
BootDropResponse ==
    /\ jpc = "await"
    /\ respChan # NoMsg
    /\ respChan' = NoMsg
    /\ blog' = [blog EXCEPT ![progcaster] = Append(@, "apply")]
    /\ ranges' = Tail(ranges)
    /\ jpc' = IF Tail(ranges) = <<>> THEN "loop" ELSE "ranges"
    /\ UNCHANGED <<sentSeq, joined, liveFrom, donorState, serverPc, stateChan,
                   reqChan, jstate, stash, pulled, progcasters_left,
                   progcaster, worker_todo, jlog, snapshot, wset, replayed>>
    /\ UNCHANGED notBoot

\* worker.rs:524-529: recv_range_response, apply_updates_range
BootRecvResponse ==
    /\ jpc = "await"
    /\ respChan # NoMsg
    /\ LET b == progcaster
           r == Head(ranges)
           response == respChan[1]
       IN /\ jstate' = [jstate EXCEPT ![b] = ApplyUpdatesRange(@, response)]
          /\ jlog' = [jlog EXCEPT ![b][r.s] =
                         @ \o [i \in 1 .. Len(response) |-> response[i].n]]
          /\ replayed' = [replayed EXCEPT ![b] = @ \o response]
          /\ blog' = [blog EXCEPT ![b] = Append(@, "apply")]
    /\ respChan' = NoMsg
    /\ ranges' = Tail(ranges)
    /\ jpc' = IF Tail(ranges) = <<>> THEN "loop" ELSE "ranges"
    /\ UNCHANGED <<sentSeq, joined, liveFrom, donorState, serverPc, stateChan,
                   reqChan, stash, pulled, progcasters_left,
                   progcaster, worker_todo, snapshot, wset>>
    /\ UNCHANGED notBoot

\* worker.rs:513, 532-533: apply_stashed_progress_msgs after the loop
BootApplyStashed ==
    /\ jpc = "loop"
    /\ LoopDone(worker_todo)
    /\ LET b == progcaster
       IN /\ jstate' = [jstate EXCEPT ![b] = ApplyStashed(@, stash[b])]
          /\ jlog' = [jlog EXCEPT ![b] = [s \in Senders |->
                         @[s] \o StashedNumbers(jstate[b], stash[b], s)]]
          /\ stash' = [stash EXCEPT ![b] = <<>>]
          /\ blog' = [blog EXCEPT ![b] = Append(@, "stash")]
    /\ jpc' = "next"
    /\ UNCHANGED <<sentSeq, joined, liveFrom, donorState, serverPc, stateChan,
                   reqChan, respChan, pulled, progcasters_left,
                   progcaster, worker_todo, ranges, snapshot, wset, replayed>>
    /\ UNCHANGED notBoot

\* worker.rs:534-536
BootReturnTrue ==
    /\ jpc = "next"
    /\ progcasters_left = {}
    /\ jpc' = "returned_true"
    /\ UNCHANGED <<sentSeq, joined, liveFrom, donorState, serverPc, stateChan,
                   reqChan, respChan, jstate, stash, pulled, progcasters_left,
                   progcaster, worker_todo, ranges, jlog, blog, snapshot, wset,
                   replayed>>
    /\ UNCHANGED notBoot

NextBoot ==
    \/ \E s \in Senders, b \in Progcasters : Broadcast(s, b)
    \/ \E b \in Progcasters, s \in Senders : DonorPull(b, s)
    \/ \E s \in Senders : AdmitJoiner(s)
    \/ ServerSendStates
    \/ ServerAnswer
    \/ \E endpoint \in BOOLEAN : BootEnter(endpoint)
    \/ BootRecvStates
    \/ \E b \in Progcasters : BootNextProgcaster(b)
    \/ BootReceive
    \/ BootSendRequest
    \/ BootRecvResponse
    \/ BootApplyStashed
    \/ BootReturnTrue

SpecBoot == Init /\ [][NextBoot]_vars

\* the joiner's thread, the donor's worker and its server thread keep running
SpecBootFair ==
    /\ SpecBoot
    /\ WF_vars(BootRecvStates)
    /\ WF_vars(\E b \in Progcasters : BootNextProgcaster(b))
    /\ WF_vars(BootReceive)
    /\ WF_vars(BootSendRequest)
    /\ WF_vars(BootRecvResponse)
    /\ WF_vars(BootApplyStashed)
    /\ WF_vars(BootReturnTrue)
    /\ WF_vars(ServerSendStates)
    /\ WF_vars(ServerAnswer)
    /\ WF_vars(\E b \in Progcasters, s \in Senders : DonorPull(b, s))

(***************************************************************************)
(* Properties of step_or_park.                                             *)
(***************************************************************************)
Count(seq, x) == Cardinality({i \in 1 .. Len(seq) : seq[i] = x})
StepPrefix == <<"rescale", "receive", "drain", "advance">>
InStep == pc # "idle"
Decided == Len(oplog) >= 5

\* C3: after the rescale of a call admitted k new peers, every channel allocated
\* before it got k more pushers, at indices [old_peers, old_peers+k), so that it
\* holds peers() pushers; and rescale is the first operation of the call, before
\* receive() and before any operator is scheduled.
C3_BackFillBeforeTraffic ==
    InStep =>
      /\ oplog # <<>>
      /\ oplog[1] = "rescale"
      /\ Len(rescaleFrom.pushers) = Len(channels)
      /\ \A r \in 1 .. Len(channels) :
            LET k == peers - rescaleFrom.peers
                push == channels[r].pushers
            IN /\ Len(push) = rescaleFrom.pushers[r] + k
               /\ Len(push) = peers
               /\ \A j \in 1 .. k :
                     push[rescaleFrom.peers + j] = rescaleFrom.peers + j - 1

C3_Witness ==
    /\ pc = "drain"
    /\ peers = rescaleFrom.peers + 2
    /\ channels # <<>>

\* C8: a call performs rescale, receive, drain, advance, then either park or
\* for_extensions and the schedule() calls, then release; receive and release
\* happen exactly once per call, and every schedule() lies between them.
C8_StepOrder ==
    /\ \A i \in 1 .. Len(oplog) :
          /\ i <= 4 => oplog[i] = StepPrefix[i]
          /\ i = 5 => oplog[i] \in {"park", "for_extensions"}
          /\ i > 5 => /\ oplog[5] = "park" => (i = 6 /\ oplog[i] = "release")
                      /\ oplog[5] = "for_extensions" =>
                            oplog[i] \in {"schedule", "release"}
          /\ oplog[i] = "release" => i = Len(oplog)
          /\ oplog[i] = "schedule" =>
                /\ \E j \in 1 .. (i - 1) : oplog[j] = "receive"
                /\ \A j \in 1 .. i : oplog[j] # "release"
    /\ pc = "returned" =>
          /\ Len(oplog) >= 6
          /\ oplog[Len(oplog)] = "release"
          /\ Count(oplog, "receive") = 1
          /\ Count(oplog, "release") = 1
    /\ pc \notin {"idle", "returned"} => Count(oplog, "release") = 0

C8_Witness ==
    /\ pc = "returned"
    /\ Count(oplog, "schedule") >= 2

\* C9: a call parks exactly when, after the drain and advance, the activation
\* set was empty, a dataflow was registered and the timeout was not zero;
\* otherwise it collects and schedules the active dataflows and does not park.
C9_ParkIff ==
    Decided =>
      /\ (oplog[5] = "park") <=>
            (dec.actEmpty /\ dec.hasDfs /\ duration # "zero")
      /\ (oplog[5] = "for_extensions") <=> (oplog[5] # "park")
      /\ oplog[5] = "park" => Count(oplog, "schedule") = 0
      /\ duration = "zero" => Count(oplog, "park") = 0
      /\ (duration = "none" /\ ~dec.hasDfs) => Count(oplog, "park") = 0

C9_Witness ==
    /\ pc = "returned"
    /\ oplog[5] = "park"
    /\ duration = "none"

\* C10: a dataflow whose operator reported complete in a call has left the
\* registry, and its channel ids the path map, by the end of the call; an
\* allocation that reuses such an id installs the new path, and the events
\* drained for an id activate the path of its latest allocation only.
C10_TeardownAndReuse ==
    /\ \A i \in tornDfs : i \notin DOMAIN dataflows
    /\ \A c \in tornIds : c \notin DOMAIN paths
    /\ \A c \in Ids : lastAddr[c] # <<>> =>
          (c \in DOMAIN paths /\ paths[c] = lastAddr[c])
    /\ pc = "advance" =>
          activations.pending =
             drained.before \cup
                {lastAddr[c] : c \in {x \in drained.chans : lastAddr[x] # <<>>}}

C10_Witness ==
    /\ pc = "advance"
    /\ \E c \in drained.chans \cap torndown :
          /\ c \in DOMAIN paths
          /\ paths[c] \in activations.pending
          /\ paths[c] \notin drained.before

C12_DrainActivatesRegistered ==
    /\ pc \in {"advance", "decide", "schedule", "release", "returned"} =>
          events = <<>>
    /\ pc = "advance" =>
          /\ oplog[Len(oplog)] = "drain"
          /\ activations.pending =
                drained.before \cup
                   {paths[c] : c \in drained.chans \cap DOMAIN paths}

\* a drain of two events: one for a registered channel, one for an unknown id
C12_Witness ==
    /\ pc = "advance"
    /\ \E c \in drained.chans : c \in DOMAIN paths /\ paths[c] \notin drained.before
    /\ \E c \in drained.chans : c \notin DOMAIN paths

(***************************************************************************)
(* Properties of the message exchange.                                     *)
(***************************************************************************)
RECURSIVE FromSender(_, _)
FromSender(q, src) ==
    IF q = <<>> THEN <<>>
    ELSE IF Head(q).src = src THEN <<Head(q).n>> \o FromSender(Tail(q), src)
         ELSE FromSender(Tail(q), src)

\* every message of src for t, wherever it is now: yielded first, in flight last
Whereabouts(src, t) ==
    FromSender(received[t], src) \o FromSender(surfaced[t], src)
       \o FromSender(arrived[t], src) \o FromSender(wire[src][t], src)

Quiet(t) ==
    /\ arrived[t] = <<>>
    /\ surfaced[t] = <<>>
    /\ \A src \in Workers : wire[src][t] = <<>>

\* C1: of the M messages pushed to a worker by all senders together, each is
\* either still in the channel or was yielded by the puller exactly once; when
\* the channel is empty the puller has yielded exactly M messages.
C1_ExactlyOnce ==
    \A t \in Workers :
       /\ \A src \in Workers :
             LET all == Whereabouts(src, t)
             IN /\ Len(all) = pushedCount[src][t]
                /\ SeqToSet(all) = 0 .. (pushedCount[src][t] - 1)
       /\ Quiet(t) =>
             Len(received[t]) =
                SumOver([src \in Workers |-> pushedCount[src][t]], Workers)

C1_Witness ==
    \E t \in Workers :
       /\ Quiet(t)
       /\ Len(received[t]) = NumWorkers * MaxMsgs

\* C2: the messages of one sender are yielded in the order the sender pushed
\* them: the i-th message yielded from a sender is the i-th it pushed.
C2_PerSenderFifo ==
    \A t \in Workers, src \in Workers :
       LET got == FromSender(received[t], src)
       IN \A i \in 1 .. Len(got) : got[i] = i - 1

\* two messages of one sender with a message of another sender between them
C2_Witness ==
    \E t \in Workers :
       /\ Len(received[t]) >= 3
       /\ received[t][1].src = received[t][3].src
       /\ received[t][1].src # received[t][2].src
       /\ received[t][1].n = 0
       /\ received[t][3].n = 1

\* C13: after allocate() the callback of a worker has stored peers() pushers,
\* and a message sent on the pusher at position i (the text "hello, i") is on
\* its way to, or was received by, worker i and no other worker.
C13_PusherPerPeer ==
    /\ \A w \in Workers : cpc[w] # "start" => Len(senders[w]) = NumWorkers
    /\ \A t \in Workers :
          /\ \A i \in 1 .. Len(received[t]) : received[t][i].hello = t
          /\ \A i \in 1 .. Len(surfaced[t]) : surfaced[t][i].hello = t
          /\ \A i \in 1 .. Len(arrived[t]) : arrived[t][i].hello = t
          /\ \A w \in Workers : \A i \in 1 .. Len(wire[w][t]) :
                wire[w][t][i].hello = t

\* a worker has received its message from itself and from the other worker
C13_Witness ==
    \E t \in Workers :
       /\ Len(received[t]) >= 2
       /\ received[t][1].src # received[t][2].src
       /\ \A i \in 1 .. Len(received[t]) : received[t][i].hello = t

(***************************************************************************)
(* Properties of bootstrap().                                              *)
(***************************************************************************)
Contiguous(seq) == \A i \in 1 .. Len(seq) : seq[i] = i - 1
ObservedLive(b, s) == pulled[b][s] > 0
\* the updates a state with these counts has consumed
SnapshotUpdates(st) ==
    Flatten([s \in Senders |-> RangeUpdates(s, 0, st.cnt[s])], SortedSeq(Senders))

\* C4: when bootstrap() has returned true, for every progcaster and every
\* sender of its worker set the sequence numbers in the joiner's state (from
\* the snapshot, the replayed range and the stashed live messages) are
\* 0, 1, 2, ... with no gap and no repetition, up to the last live message
\* the joiner pulled.
C4_ExactlyOnceAcrossBootstrap ==
    jpc = "returned_true" =>
      \A b \in Progcasters : \A s \in wset[b] :
         /\ Contiguous(jlog[b][s])
         /\ jstate[b].cnt[s] = Len(jlog[b][s])
         /\ Len(jlog[b][s]) = liveFrom[s][b] + pulled[b][s]

C4_Witness ==
    /\ jpc = "returned_true"
    /\ \E b \in Progcasters : \E s \in wset[b] :
          /\ snapshot[1][b].cnt[s] < liveFrom[s][b]
          /\ replayed[b] # <<>>
          /\ pulled[b][s] >= 1

C6_InstallReplayStashOrder ==
    \A b \in Progcasters :
       /\ \A i \in 1 .. Len(blog[b]) :
             /\ (blog[b][i] = "install") <=> (i = 1)
             /\ blog[b][i] = "stash" => i = Len(blog[b])
             /\ blog[b][i] = "apply" => blog[b][i - 1] = "request"
             /\ (blog[b][i] = "request" /\ i < Len(blog[b])) => blog[b][i + 1] = "apply"
       /\ (Count(blog[b], "stash") > 0 /\ progcaster = b) =>
             /\ worker_todo = {}
             /\ ranges = <<>>
             /\ reqChan = NoMsg
             /\ respChan = NoMsg

C6_Witness ==
    \E b \in Progcasters :
       /\ Count(blog[b], "apply") >= 1
       /\ Count(blog[b], "stash") = 1

\* every sender of every worker set has been admitted and has sent a live update
EverySenderLive ==
    /\ jpc \notin {"idle", "returned_false"}
    /\ snapshot # NoMsg
    /\ \A b \in Progcasters : \A s \in GetWorkerIndices(snapshot[1][b]) :
          s \in joined /\ sentSeq[s][b] > liveFrom[s][b]

\* C7: bootstrap() has returned true only if every sender of every worker set
\* was observed on the live channel, and once every such sender has sent a
\* live update bootstrap() eventually returns true.
C7_ReturnsIffAllObserved ==
    /\ [](jpc = "returned_true" =>
             \A b \in Progcasters : \A s \in wset[b] : ObservedLive(b, s))
    /\ EverySenderLive ~> (jpc = "returned_true")

C7_Witness ==
    /\ jpc = "returned_true"
    /\ \E b \in Progcasters : wset[b] = Senders

(***************************************************************************)
(* A cluster admitting joiners.  Allocate (mod.rs:48-60) declares index(), *)
(* peers() and rescale(); the network-backed allocator that implements     *)
(* the admission is described by section 4.5 of the specification: the     *)
(* rescale of a worker gives a new peer the index "old peers", increments  *)
(* peers and back-fills a pusher for every channel.  Joiners are launched  *)
(* one after the other, as in the scenario of the specification, each once *)
(* the one before is admitted everywhere.                                  *)
(***************************************************************************)
Running(m) == indexOf[m] # NoIndex

Joiners == Members \ Founders

\* the workers a joiner connects to: those launched before it
EarlierThan(m) == {w \in Members : Running(w) /\ indexOf[w] < indexOf[m]}

\* a joiner configured as the last of n + 1 processes without counting itself
ConfiguredPeersWithoutSelf(n) == n

\* the peers of a process configured as number n of the address list:
\* the list holds the process itself (initialize.rs:80 and 99)
ConfiguredPeers(n) == n + 1

\* the index after the increment of peers
NewPeerIndexAfterIncrement(p) == p + 1

\* section 4.5, donor path, step 1: the new peer gets the index "old peers"
NewPeerIndex(p) == p

\* every worker launched before joiner j has admitted it
AdmittedEverywhere(j) == \A w \in EarlierThan(j) : assigned[w][j] # NoIndex

\* a joiner process is launched with the cluster's addresses and its own
Launch(m) ==
    /\ m \in Joiners
    /\ ~Running(m)
    /\ \A j \in Members : j < m => Running(j) /\ (j \in Joiners => AdmittedEverywhere(j))
    /\ LET n == Cardinality({w \in Members : Running(w)})
       IN /\ indexOf' = [indexOf EXCEPT ![m] = n]
          /\ peersOf' = [peersOf EXCEPT ![m] = ConfiguredPeers(n)]
    /\ UNCHANGED <<conn, assigned, pullersOf, pushersOf, mailbox, observed>>
    /\ UNCHANGED notCluster

\* the joiner's connection to worker w completes
Dial(m, w) ==
    /\ m \in Joiners
    /\ Running(m)
    /\ w \in EarlierThan(m)
    /\ assigned[w][m] = NoIndex
    /\ \A i \in 1 .. Len(conn[w]) : conn[w][i] # m
    /\ conn' = [conn EXCEPT ![w] = Append(@, m)]
    /\ UNCHANGED <<indexOf, peersOf, assigned, pullersOf, pushersOf, mailbox, observed>>
    /\ UNCHANGED notCluster

\* allocate() on worker w: one puller, one pusher per peer
ClusterAllocate(w) ==
    /\ Running(w)
    /\ pullersOf[w] < MaxChannels
    /\ pullersOf' = [pullersOf EXCEPT ![w] = @ + 1]
    /\ pushersOf' = [pushersOf EXCEPT ![w] = Append(@, peersOf[w])]
    /\ UNCHANGED <<indexOf, peersOf, conn, assigned, mailbox, observed>>
    /\ UNCHANGED notCluster

\* rescale() on worker w (called at worker.rs:202) admits a connected joiner
Admit(w) ==
    /\ Running(w)
    /\ conn[w] # <<>>
    /\ LET m == Head(conn[w])
       IN assigned' = [assigned EXCEPT ![w][m] = NewPeerIndex(peersOf[w])]
    /\ peersOf' = [peersOf EXCEPT ![w] = @ + 1]
    /\ pushersOf' = [pushersOf EXCEPT
                        ![w] = [c \in 1 .. Len(@) |-> @[c] + 1]]
    /\ conn' = [conn EXCEPT ![w] = Tail(@)]
    /\ UNCHANGED <<indexOf, pullersOf, mailbox, observed>>
    /\ UNCHANGED notCluster

\* the joiner broadcasts a progress message; its header names the sender
JoinerSend(m, w) ==
    /\ m \in Joiners
    /\ Running(m)
    /\ w \in EarlierThan(m)
    /\ \/ assigned[w][m] # NoIndex
       \/ \E i \in 1 .. Len(conn[w]) : conn[w][i] = m
    /\ \A i \in 1 .. Len(mailbox[w]) : mailbox[w][i].conn # m
    /\ \A i \in 1 .. Len(observed[w]) : observed[w][i].conn # m
    /\ mailbox' = [mailbox EXCEPT ![w] = Append(@, [conn |-> m, src |-> indexOf[m]])]
    /\ UNCHANGED <<indexOf, peersOf, conn, assigned, pullersOf, pushersOf, observed>>
    /\ UNCHANGED notCluster

\* worker w receives from the connection of a peer it has admitted
Observe(w) ==
    /\ Running(w)
    /\ mailbox[w] # <<>>
    /\ assigned[w][Head(mailbox[w]).conn] # NoIndex
    /\ observed' = [observed EXCEPT ![w] = Append(@, Head(mailbox[w]))]
    /\ mailbox' = [mailbox EXCEPT ![w] = Tail(@)]
    /\ UNCHANGED <<indexOf, peersOf, conn, assigned, pullersOf, pushersOf>>
    /\ UNCHANGED notCluster

NextCluster ==
    \/ \E m \in Members : Launch(m)
    \/ \E m \in Members, w \in Members : Dial(m, w)
    \/ \E w \in Members : ClusterAllocate(w)
    \/ \E w \in Members : Admit(w)
    \/ \E m \in Members, w \in Members : JoinerSend(m, w)
    \/ \E w \in Members : Observe(w)

SpecCluster == Init /\ [][NextCluster]_vars

\* C14: every running worker's index() is in [0, peers()), index() never
\* changes once the worker runs, and peers() never decreases: it changes
\* only when a rescale admits a peer.
C14_IndexStablePeersGrow ==
    /\ [](\A m \in Members : Running(m) => 0 <= indexOf[m] /\ indexOf[m] < peersOf[m])
    /\ [][\A m \in Members : Running(m) =>
             /\ indexOf'[m] = indexOf[m]
             /\ peersOf'[m] >= peersOf[m]
             /\ peersOf'[m] # peersOf[m] =>
                   \E j \in Members : assigned[m][j] = NoIndex /\ assigned'[m][j] # NoIndex]_vars

C14_Witness ==
    \E w \in Founders, j \in Joiners :
        /\ Running(j)
        /\ assigned[w][j] # NoIndex
        /\ peersOf[w] > InitPeers

\* C15: the rescale that admits a new peer gives it the index that was the
\* worker's peers() before, increments peers() by exactly one and leaves the
\* pullers alone; every worker gives the peer the same index, and the
\* joiner's messages are seen with that sender index.
C15_AdmissionIndex ==
    /\ [][\A w \in Members : Running(w) =>
             \A j \in Members : assigned'[w][j] # assigned[w][j] =>
                /\ assigned'[w][j] = peersOf[w]
                /\ peersOf'[w] = peersOf[w] + 1
                /\ pullersOf'[w] = pullersOf[w]]_vars
    /\ [](\A w \in Members, v \in Members, j \in Members :
             assigned[w][j] # NoIndex /\ assigned[v][j] # NoIndex =>
                assigned[w][j] = assigned[v][j])
    /\ [](\A w \in Members : \A i \in 1 .. Len(observed[w]) :
             observed[w][i].src = assigned[w][observed[w][i].conn])

\* the first joiner of the cluster is admitted by every initial worker with
\* the index InitPeers (2 when joining a two-worker cluster), and each has
\* seen its message and holds a puller
C15_Witness ==
    \E j \in Joiners :
        \A w \in Founders :
            /\ assigned[w][j] = InitPeers
            /\ pullersOf[w] > 0
            /\ \E i \in 1 .. Len(observed[w]) :
                  observed[w][i].conn = j /\ observed[w][i].src = InitPeers

(***************************************************************************)
(* Worker::step_while (worker.rs:293-295): while func() { self.step(); }   *)
(* The predicate answers true a chosen number of times, or for ever.       *)
(* step() is step_or_park with a zero timeout (worker.rs:160-162); what    *)
(* its park test sees is any combination of activations and dataflows.     *)
(***************************************************************************)
Budgets == (0 .. MaxSteps) \cup {Forever}

CountUp(n) == IF n <= MaxSteps THEN n + 1 ELSE n

\* a step() that passes no timeout
StepDurationNone == "none"

\* worker.rs:161: Some(Duration::from_secs(0))
StepDuration == "zero"

\* worker.rs:293: the call
StepWhileCall(k) ==
    /\ swpc = "idle"
    /\ budget' = k
    /\ calledWith' = k
    /\ swpc' = "test"
    /\ UNCHANGED <<evals, steps, swdec, blocked>>
    /\ UNCHANGED notStepWhile

\* worker.rs:294: func() is evaluated; the loop ends when it answers false
EvalPred ==
    /\ swpc = "test"
    /\ evals' = CountUp(evals)
    /\ IF budget = 0
       THEN swpc' = "done" /\ budget' = budget
       ELSE /\ swpc' = "step"
            /\ budget' = IF budget = Forever THEN Forever ELSE budget - 1
    /\ UNCHANGED <<calledWith, steps, swdec, blocked>>
    /\ UNCHANGED notStepWhile

\* worker.rs:294: self.step(), which parks in await_events when the park
\* test of step_or_park says so (worker.rs:230-239) and returns otherwise
StepBody(actEmpty, hasDfs) ==
    /\ swpc = "step"
    /\ ~blocked
    /\ steps' = CountUp(steps)
    /\ swdec' = [actEmpty |-> actEmpty, hasDfs |-> hasDfs]
    /\ IF ShouldPark(actEmpty, hasDfs, StepDuration)
       THEN blocked' = TRUE /\ swpc' = swpc
       ELSE blocked' = blocked /\ swpc' = "test"
    /\ UNCHANGED <<budget, calledWith, evals>>
    /\ UNCHANGED notStepWhile

NextStepWhile ==
    \/ \E k \in Budgets : StepWhileCall(k)
    \/ EvalPred
    \/ \E a \in BOOLEAN, h \in BOOLEAN : StepBody(a, h)

\* the worker thread runs: an enabled evaluation or step is taken
SpecStepWhile ==
    /\ Init
    /\ [][NextStepWhile]_vars
    /\ WF_vars(EvalPred)
    /\ WF_vars(\E a \in BOOLEAN, h \in BOOLEAN : StepBody(a, h))

\* C16: step_while(pred) returns exactly when pred answers false after
\* finitely many steps; pred is evaluated before each step, no step runs when
\* it is false at once, one step() runs per true answer, and no step parks.
C16_StepWhileTerminatesIff ==
    /\ [](swpc = "done" => calledWith # Forever /\ budget = 0)
    /\ [](calledWith # Forever =>
            /\ swpc = "test" => evals = steps /\ steps = calledWith - budget
            /\ swpc = "step" => evals = steps + 1
            /\ swpc = "done" => evals = steps + 1 /\ steps = calledWith)
    /\ [](calledWith = Forever /\ evals <= MaxSteps =>
            /\ swpc = "test" => evals = steps
            /\ swpc = "step" => evals = steps + 1)
    /\ [](~blocked)
    /\ (swpc = "test" /\ calledWith # Forever) ~> (swpc = "done")

C16_Witness ==
    /\ swpc = "done"
    /\ calledWith >= 2
    /\ steps = calledWith
    /\ swdec.actEmpty /\ swdec.hasDfs

(***************************************************************************)
(* initialize, initialize_from and WorkerGuards (initialize.rs:242-370).   *)
(* initialize builds the allocators of a configuration and hands them to   *)
(* initialize_from, which spawns one thread per builder; the caller then   *)
(* either calls join() or drops the guards.  A worker thread returns the   *)
(* value of its closure or panics.  JoinHandle::join blocks until the      *)
(* thread has finished; a JoinHandle that is dropped detaches its thread.  *)
(***************************************************************************)
GuardThreads == 1 .. MaxThreads

Spawned == 1 .. builders

Finished(i) == thread[i] \in {"returned", "panicked"}

\* the doc example's closure returns allocator.index() (initialize.rs:307)
Ok(i) == [ok |-> TRUE, value |-> i - 1]

\* format!("{:?}", e) of the panic payload
Err(i) == [ok |-> FALSE, value |-> -1]

\* JoinHandle::join of a finished thread, mapped as join() maps it
JoinResult(i) == IF thread[i] = "returned" THEN Ok(i) ELSE Err(i)

SeqRange(q) == {q[n] : n \in 1 .. Len(q)}

\* a joining process with a single bootstrap endpoint
OneBootstrapRecvEndpoint(cfg) ==
    IF cfg.kind = "Cluster" /\ cfg.join # NoJoin THEN 1 ELSE NoEndpoints

\* initialize.rs:125-149: a joining process gets one bootstrap endpoint per
\* worker thread, any other process none
BootstrapRecvEndpoints(cfg) ==
    IF cfg.kind = "Cluster" /\ cfg.join # NoJoin THEN cfg.threads ELSE NoEndpoints

\* the value of a numeric option as from_args reads it:
\* opt_str(..).map(|x| x.parse().unwrap_or(d)).unwrap_or(d)
ParseOr(v, d) == IF v.given /\ v.numeric THEN v.value ELSE d

\* the configuration errors of a command line: what getopts rejects, option
\* values that are no numbers, a process index not below the process count,
\* a hostfile that cannot be read or is too short for a cluster
ArgFaults(a) ==
    (IF ~a.parseable \/ Bad \in {a.w, a.p, a.n, a.join} THEN {"malformed"} ELSE {})
    \cup (IF a.p.numeric /\ a.p.value >= (IF a.n.numeric THEN a.n.value ELSE 1)
          THEN {"process_index"} ELSE {})
    \cup (IF a.n.numeric /\ a.n.value > 1 /\ a.hostfile \in {"missing", "short"}
          THEN {"hostfile"} ELSE {})

\* initialize.rs:66-112: Configuration::from_args, in the order of the code
FromArgsResult(a) ==
    LET threads == ParseOr(a.w, 1)
        process == ParseOr(a.p, 0)
        processes == ParseOr(a.n, 1)
        join == IF a.join.given THEN a.join.value ELSE NoJoin
    IN IF ~a.parseable THEN [outcome |-> "err", config |-> NoConfig]
       ELSE IF a.join.given /\ ~a.join.numeric
            THEN [outcome |-> "panic", config |-> NoConfig]
       ELSE IF ~(process < processes)
            THEN [outcome |-> "panic", config |-> NoConfig]
       ELSE IF processes > 1
            THEN IF a.hostfile \in {"missing", "short"}
                 THEN [outcome |-> "panic", config |-> NoConfig]
                 ELSE [outcome |-> "ok",
                       config |-> [kind |-> "Cluster", threads |-> threads,
                                   join |-> join]]
       ELSE IF threads > 1
            THEN [outcome |-> "ok",
                  config |-> [kind |-> "Process", threads |-> threads,
                              join |-> NoJoin]]
       ELSE [outcome |-> "ok",
             config |-> [kind |-> "Thread", threads |-> 1, join |-> NoJoin]]

\* the program builds its configuration from the command line and hands it
\* to initialize
FromArgs(a) ==
    /\ gpc = "start"
    /\ faults' = ArgFaults(a)
    /\ LET res == FromArgsResult(a)
       IN /\ config' = res.config
          /\ gpc' = IF res.outcome = "ok" THEN "try_build"
                    ELSE IF res.outcome = "err" THEN "args_err"
                    ELSE "args_panicked"
    /\ UNCHANGED <<clientThreads, builders, endpoints, thread, guards, joinCount,
                   detached, results>>
    /\ UNCHANGED notGuards

\* initialize.rs:242-245: initialize(config, func)
CallInitialize(cfg) ==
    /\ gpc = "start"
    /\ config' = cfg
    /\ gpc' = "try_build"
    /\ UNCHANGED <<faults, clientThreads, builders, endpoints, thread, guards,
                   joinCount, detached, results>>
    /\ UNCHANGED notGuards

\* initialize.rs:315-319: initialize_from(builders, others, func)
CallInitializeFrom(n) ==
    /\ gpc = "start"
    /\ builders' = n
    /\ gpc' = "spawning"
    /\ UNCHANGED <<config, faults, clientThreads, endpoints, thread, guards,
                   joinCount, detached, results>>
    /\ UNCHANGED notGuards

\* initialize.rs:138-139: an unparsable BOOTSTRAP_ADDR is a configuration error
AddrFaults(cfg, addrOk) ==
    IF cfg.kind = "Cluster" /\ cfg.join # NoJoin /\ ~addrOk
    THEN {"bootstrap_address"} ELSE {}

\* initialize.rs:144: the bootstrap thread of a joining process, which is
\* handed the send endpoints of all its worker threads
BootstrapClientThreads(cfg) ==
    IF cfg.kind = "Cluster" /\ cfg.join # NoJoin THEN 1 ELSE 0

\* initialize.rs:246 and 115-160: config.try_build()?; a joining cluster
\* parses the bootstrap address with expect and spawns the bootstrap thread;
\* only a cluster sets up networking, whose failure is returned as Err
TryBuild(netOk, addrOk) ==
    /\ gpc = "try_build"
    /\ config.kind # "Cluster" => netOk
    /\ config.kind # "Cluster" \/ config.join = NoJoin => addrOk
    /\ faults' = faults \cup AddrFaults(config, addrOk)
    /\ IF ~addrOk
       THEN /\ gpc' = "build_panicked"
            /\ UNCHANGED <<clientThreads, builders, endpoints>>
       ELSE /\ clientThreads' = BootstrapClientThreads(config)
            /\ IF netOk
               THEN /\ builders' = config.threads
                    /\ endpoints' = BootstrapRecvEndpoints(config)
                    /\ gpc' = "assert"
               ELSE /\ gpc' = "init_err"
                    /\ UNCHANGED <<builders, endpoints>>
    /\ UNCHANGED <<config, thread, guards, joinCount, detached, results>>
    /\ UNCHANGED notGuards

\* initialize.rs:247: assert!(others.0.is_none())
AssertNoEndpoints ==
    /\ gpc = "assert"
    /\ gpc' = IF endpoints = NoEndpoints THEN "spawning" ELSE "init_panicked"
    /\ UNCHANGED <<config, faults, clientThreads, builders, endpoints, thread, guards, joinCount, detached,
                   results>>
    /\ UNCHANGED notGuards

\* initialize.rs:327-336: the next thread is spawned, or its spawn fails and
\* `?` returns the error, dropping the handles collected so far
SpawnNext(ok) ==
    /\ gpc = "spawning"
    /\ Len(guards) < builders
    /\ IF ok
       THEN /\ thread' = [thread EXCEPT ![Len(guards) + 1] = "running"]
            /\ guards' = Append(guards, Len(guards) + 1)
            /\ UNCHANGED <<gpc, detached>>
       ELSE /\ gpc' = "init_err"
            /\ detached' = detached \cup SeqRange(guards)
            /\ guards' = <<>>
            /\ UNCHANGED thread
    /\ UNCHANGED <<config, faults, clientThreads, builders, endpoints, joinCount, results>>
    /\ UNCHANGED notGuards

\* initialize.rs:338: Ok(WorkerGuards { guards, _others })
SpawnDone ==
    /\ gpc = "spawning"
    /\ Len(guards) = builders
    /\ gpc' = "holding"
    /\ UNCHANGED <<config, faults, clientThreads, builders, endpoints, thread, guards, joinCount, detached,
                   results>>
    /\ UNCHANGED notGuards

\* the closure of worker thread i returns
ThreadReturn(i) ==
    /\ thread[i] = "running"
    /\ thread' = [thread EXCEPT ![i] = "returned"]
    /\ UNCHANGED <<gpc, config, faults, clientThreads, builders, endpoints, guards, joinCount, detached,
                   results>>
    /\ UNCHANGED notGuards

\* the closure of worker thread i panics
ThreadPanic(i) ==
    /\ thread[i] = "running"
    /\ thread' = [thread EXCEPT ![i] = "panicked"]
    /\ UNCHANGED <<gpc, config, faults, clientThreads, builders, endpoints, guards, joinCount, detached,
                   results>>
    /\ UNCHANGED notGuards

\* initialize.rs:355: guards.join()
CallJoin ==
    /\ gpc = "holding"
    /\ gpc' = "joining"
    /\ UNCHANGED <<config, faults, clientThreads, builders, endpoints, thread, guards, joinCount, detached,
                   results>>
    /\ UNCHANGED notGuards

\* a join() that unwraps the result of every handle
JoinNextExpect ==
    /\ gpc = "joining"
    /\ guards # <<>>
    /\ Finished(Head(guards))
    /\ joinCount' = [joinCount EXCEPT ![Head(guards)] = @ + 1]
    /\ IF thread[Head(guards)] = "panicked"
       THEN /\ gpc' = "join_drop"
            /\ detached' = detached \cup SeqRange(Tail(guards))
            /\ guards' = <<>>
            /\ results' = results
       ELSE /\ results' = Append(results, JoinResult(Head(guards)))
            /\ guards' = Tail(guards)
            /\ UNCHANGED <<gpc, detached>>
    /\ UNCHANGED <<config, faults, clientThreads, builders, endpoints, thread>>
    /\ UNCHANGED notGuards

\* initialize.rs:356-359: drain(..).map(|guard| guard.join().map_err(..))
JoinNext ==
    /\ gpc = "joining"
    /\ guards # <<>>
    /\ Finished(Head(guards))
    /\ joinCount' = [joinCount EXCEPT ![Head(guards)] = @ + 1]
    /\ results' = Append(results, JoinResult(Head(guards)))
    /\ guards' = Tail(guards)
    /\ UNCHANGED <<gpc, config, faults, clientThreads, builders, endpoints, thread, detached>>
    /\ UNCHANGED notGuards

\* initialize.rs:359-360: collect() is complete; self is dropped
JoinDone ==
    /\ gpc = "joining"
    /\ guards = <<>>
    /\ gpc' = "join_drop"
    /\ UNCHANGED <<config, faults, clientThreads, builders, endpoints, thread, guards, joinCount, detached,
                   results>>
    /\ UNCHANGED notGuards

\* the caller drops the guards without join()
CallDrop ==
    /\ gpc = "holding"
    /\ gpc' = "dropping"
    /\ UNCHANGED <<config, faults, clientThreads, builders, endpoints, thread, guards, joinCount, detached,
                   results>>
    /\ UNCHANGED notGuards

\* initialize.rs:365-367: guard.join().expect("Worker panic"); the panic of
\* expect unwinds out of drop and drops the Drain with the handles left
DropNext ==
    /\ gpc \in {"dropping", "join_drop"}
    /\ guards # <<>>
    /\ Finished(Head(guards))
    /\ joinCount' = [joinCount EXCEPT ![Head(guards)] = @ + 1]
    /\ IF thread[Head(guards)] = "panicked"
       THEN /\ gpc' = "drop_panicked"
            /\ detached' = detached \cup SeqRange(Tail(guards))
            /\ guards' = <<>>
       ELSE /\ guards' = Tail(guards)
            /\ UNCHANGED <<gpc, detached>>
    /\ UNCHANGED <<config, faults, clientThreads, builders, endpoints, thread, results>>
    /\ UNCHANGED notGuards

\* initialize.rs:368-369: the loop of drop is over
DropDone ==
    /\ gpc \in {"dropping", "join_drop"}
    /\ guards = <<>>
    /\ gpc' = IF gpc = "join_drop" THEN "join_returned" ELSE "dropped"
    /\ UNCHANGED <<config, faults, clientThreads, builders, endpoints, thread, guards, joinCount, detached,
                   results>>
    /\ UNCHANGED notGuards

NextGuards ==
    \/ \E a \in ArgLines : FromArgs(a)
    \/ \E cfg \in Configs : CallInitialize(cfg)
    \/ \E n \in 1 .. MaxThreads : CallInitializeFrom(n)
    \/ \E netOk \in BOOLEAN, addrOk \in BOOLEAN : TryBuild(netOk, addrOk)
    \/ AssertNoEndpoints
    \/ \E ok \in BOOLEAN : SpawnNext(ok)
    \/ SpawnDone
    \/ \E i \in GuardThreads : ThreadReturn(i)
    \/ \E i \in GuardThreads : ThreadPanic(i)
    \/ CallJoin
    \/ JoinNext
    \/ JoinDone
    \/ CallDrop
    \/ DropNext
    \/ DropDone

SpecGuards == Init /\ [][NextGuards]_vars

\* C17: when the drop of the guards is over, by returning or by panicking,
\* every worker thread initialize_from spawned has finished and was joined.
C17_DropJoinsAll ==
    gpc \in {"dropped", "drop_panicked"} =>
       \A i \in Spawned : Finished(i) /\ joinCount[i] = 1 /\ i \notin detached

\* C18: join() returns one entry per spawned worker in index order, Ok(value)
\* for a worker that returned value and Err(text) for one that panicked,
\* whatever the other workers did; the drop that follows joins nothing again.
C18_JoinCollectsAll ==
    gpc \in {"join_drop", "join_returned"} =>
       /\ Len(results) = builders
       /\ \A i \in Spawned :
             /\ Finished(i)
             /\ results[i] = JoinResult(i)
             /\ thread[i] = "returned" => results[i] = [ok |-> TRUE, value |-> i - 1]
             /\ thread[i] = "panicked" => ~results[i].ok
             /\ joinCount[i] = 1
       /\ detached = {}
       /\ guards = <<>>

C18_Witness ==
    /\ gpc = "join_returned"
    /\ \E i \in Spawned, k \in Spawned :
          i < k /\ thread[i] = "panicked" /\ results[k].ok

\* C19: initialize with a configuration that joins a cluster does not panic:
\* it returns Err when networking fails and otherwise spawns one worker
\* thread per configured thread and returns the guards.
C19_JoinerInitializes ==
    config.kind = "Cluster" /\ config.join # NoJoin =>
       /\ gpc # "init_panicked"
       /\ gpc = "holding" => Len(guards) = config.threads

(***************************************************************************)
(* bootstrap() with a bootstrap channel that can fail.  The endpoint is a  *)
(* set of mpsc channels to the bootstrap client thread                     *)
(* (initialize.rs:129-135); what is already in a channel can still be      *)
(* received after the failure.  Section 4.6 of the specification gives the *)
(* outcome of an endpoint operation on the failed channel: the joiner      *)
(* aborts.  bootstrap() uses the endpoint at worker.rs:485, 521 and 524    *)
(* only.                                                                   *)
(***************************************************************************)
InBootstrap == jpc \in {"states", "next", "loop", "ranges", "await"}

\* the bootstrap socket fails while the joiner is in bootstrap()
ChanFail ==
    /\ InBootstrap
    /\ serverPc # "failed"
    /\ serverPc' = "failed"
    /\ UNCHANGED <<sentSeq, joined, liveFrom, donorState, stateChan, reqChan,
                   respChan, jpc, jstate, stash, pulled, progcasters_left,
                   progcaster, worker_todo, ranges, jlog, blog, snapshot, wset,
                   replayed>>
    /\ UNCHANGED notBoot

\* worker.rs:485 and 524: a receive on the failed, empty channel
BootAbort ==
    /\ serverPc = "failed"
    /\ \/ jpc = "states" /\ stateChan = NoMsg
       \/ jpc = "await" /\ respChan = NoMsg
    /\ jpc' = "aborted"
    /\ UNCHANGED <<sentSeq, joined, liveFrom, donorState, serverPc, stateChan,
                   reqChan, respChan, jstate, stash, pulled, progcasters_left,
                   progcaster, worker_todo, ranges, jlog, blog, snapshot, wset,
                   replayed>>
    /\ UNCHANGED notBoot

NextBootFail ==
    \/ NextBoot
    \/ ChanFail
    \/ BootAbort

SpecBootFail == Init /\ [][NextBootFail]_vars

\* C20: once the bootstrap channel has failed during bootstrap(), bootstrap()
\* does not return true.
C20_ChannelFailureFailsBootstrap ==
    serverPc = "failed" => jpc # "returned_true"

\* C21: a configuration error at startup (a malformed or non-numeric option,
\* an unreadable or short hostfile, a process index not below the process
\* count, an unparsable bootstrap address) ends initialization with Err: no
\* panic, and no default in place of the faulty value.
C21_ConfigErrorsReturnErr ==
    faults # {} => gpc \in {"args_err", "init_err"}

(***************************************************************************)
(* A Worker and its clones (worker.rs:60-83, 549-566).  Every field of a   *)
(* handle refers to a cell; Rc::clone makes the clone refer to the same    *)
(* cell, HashMap::clone gives it a cell of its own with a copy of the      *)
(* content.  An operation through a handle reads and writes the cells of   *)
(* that handle.  The Wrapper of a dataflow (worker.rs:568-613) holds the   *)
(* operator and the resources.                                             *)
(***************************************************************************)
\* a clone that also copies the identifier counter
RcFieldsWithoutIdentifiers ==
    {"paths", "dataflows", "dataflow_counter", "activations", "temp_channel_ids"}

\* worker.rs:551-564: the fields cloned as Rc; the two handle maps are
\* cloned as HashMaps
RcFields ==
    {"paths", "identifiers", "dataflows", "dataflow_counter", "activations",
     "temp_channel_ids"}

\* what handle h observes in field f
View(h, f) == heap[f][cellOf[h][f]]

\* the heap after handle h has written v to field f
Write(hp, h, f, v) == [hp EXCEPT ![f][cellOf[h][f]] = v]

\* a Wrapper::step that drops the resources before the operator
StepWrapperResourcesFirst(w, incomplete) ==
    IF w.operate /\ incomplete
    THEN [w |-> w, log |-> <<>>]
    ELSE [w |-> [operate |-> FALSE, resources |-> FALSE],
          log |-> (IF w.resources THEN <<"resources">> ELSE <<>>)
                  \o (IF w.operate THEN <<"operator">> ELSE <<>>)]

\* worker.rs:582-601: Wrapper::step with the answer of schedule(): a complete
\* operator is dropped, then the resources
StepWrapper(w, incomplete) ==
    IF w.operate /\ incomplete
    THEN [w |-> w, log |-> <<>>]
    ELSE [w |-> [operate |-> FALSE, resources |-> FALSE],
          log |-> (IF w.operate THEN <<"operator">> ELSE <<>>)
                  \o (IF w.resources THEN <<"resources">> ELSE <<>>)]

\* worker.rs:604-613: Drop for Wrapper
DropWrapper(w) ==
    [w |-> [operate |-> FALSE, resources |-> FALSE],
     log |-> (IF w.operate THEN <<"operator">> ELSE <<>>)
             \o (IF w.resources THEN <<"resources">> ELSE <<>>)]

\* worker.rs:549-566: handle h is cloned
CloneWorker(h, n) ==
    /\ h \in workerHandles
    /\ n \in (1 .. MaxHandles) \ workerHandles
    /\ workerHandles' = workerHandles \cup {n}
    /\ cellOf' = [cellOf EXCEPT
                     ![n] = [f \in Fields |-> IF f \in RcFields THEN cellOf[h][f] ELSE n]]
    /\ heap' = [f \in Fields |->
                   IF f \in RcFields THEN heap[f]
                   ELSE [heap[f] EXCEPT ![n] = View(h, f)]]
    /\ UNCHANGED <<issued, wrappers, dropLog, lastSchedule>>
    /\ UNCHANGED notHandles

\* worker.rs:88-95 after 348-351: an operator draws an identifier through
\* handle h and allocates a channel with it
AllocateVia(h) ==
    /\ h \in workerHandles
    /\ Len(issued) < MaxAllocs + MaxDataflows
    /\ Len(View(h, "temp_channel_ids")) < MaxAllocs
    /\ LET id == View(h, "identifiers")
           hp1 == Write(heap, h, "identifiers", id + 1)
           hp2 == Write(hp1, h, "paths", View(h, "paths") \cup {id})
       IN /\ heap' = Write(hp2, h, "temp_channel_ids",
                           Append(View(h, "temp_channel_ids"), id))
          /\ issued' = Append(issued, [by |-> h, id |-> id])
    /\ UNCHANGED <<workerHandles, cellOf, wrappers, dropLog, lastSchedule>>
    /\ UNCHANGED notHandles

\* worker.rs:425-473: dataflow_core through handle h; the progcaster handles
\* of the new scope are added to the maps of h
DataflowVia(h) ==
    /\ h \in workerHandles
    /\ Len(issued) < MaxAllocs + MaxDataflows
    /\ View(h, "dataflow_counter") < MaxDataflows
    /\ LET d == View(h, "dataflow_counter")
           id == View(h, "identifiers")
           hp1 == Write(heap, h, "dataflow_counter", d + 1)
           hp2 == Write(hp1, h, "identifiers", id + 1)
           hp3 == Write(hp2, h, "progcaster_client_handles",
                        View(h, "progcaster_client_handles") \cup {d})
           hp4 == Write(hp3, h, "progcaster_server_handles",
                        View(h, "progcaster_server_handles") \cup {d})
           hp5 == Write(hp4, h, "temp_channel_ids", <<>>)
       IN /\ heap' = Write(hp5, h, "dataflows", View(h, "dataflows") \cup {d})
          /\ issued' = Append(issued, [by |-> h, id |-> id])
          /\ wrappers' = [wrappers EXCEPT ![d] = [operate |-> TRUE, resources |-> TRUE]]
    /\ UNCHANGED <<workerHandles, cellOf, dropLog, lastSchedule>>
    /\ UNCHANGED notHandles

\* an activator of dataflow d is triggered through handle h
ActivateVia(h, d) ==
    /\ h \in workerHandles
    /\ d \in View(h, "dataflows")
    /\ d \notin View(h, "activations")
    /\ heap' = Write(heap, h, "activations", View(h, "activations") \cup {d})
    /\ UNCHANGED <<workerHandles, cellOf, issued, wrappers, dropLog, lastSchedule>>
    /\ UNCHANGED notHandles

\* worker.rs:251-263: a step through handle h schedules active dataflow d;
\* when its operator reports complete the entry is removed and dropped
ScheduleVia(h, d, incomplete) ==
    /\ h \in workerHandles
    /\ d \in View(h, "activations")
    /\ d \in View(h, "dataflows")
    /\ LET stepped == StepWrapper(wrappers[d], incomplete)
           dropped == DropWrapper(stepped.w)
       IN IF incomplete
          THEN /\ wrappers' = [wrappers EXCEPT ![d] = stepped.w]
               /\ dropLog' = [dropLog EXCEPT ![d] = @ \o stepped.log]
               /\ heap' = Write(heap, h, "activations", View(h, "activations") \ {d})
          ELSE /\ wrappers' = [wrappers EXCEPT ![d] = dropped.w]
               /\ dropLog' = [dropLog EXCEPT ![d] = @ \o stepped.log \o dropped.log]
               /\ heap' = Write(Write(heap, h, "activations",
                                      View(h, "activations") \ {d}),
                                h, "dataflows", View(h, "dataflows") \ {d})
    /\ lastSchedule' = [lastSchedule EXCEPT
                           ![d] = IF incomplete THEN "incomplete" ELSE "complete"]
    /\ UNCHANGED <<workerHandles, cellOf, issued>>
    /\ UNCHANGED notHandles

\* the last handle goes away: the registry is dropped with every record in it
DropWorker ==
    /\ workerHandles # {}
    /\ LET registry == View(CHOOSE h \in workerHandles : TRUE, "dataflows")
       IN /\ wrappers' = [d \in DfIdx |->
                             IF d \in registry THEN DropWrapper(wrappers[d]).w
                             ELSE wrappers[d]]
          /\ dropLog' = [d \in DfIdx |->
                            IF d \in registry
                            THEN dropLog[d] \o DropWrapper(wrappers[d]).log
                            ELSE dropLog[d]]
    /\ workerHandles' = {}
    /\ UNCHANGED <<cellOf, heap, issued, lastSchedule>>
    /\ UNCHANGED notHandles

NextHandles ==
    \/ \E h \in 1 .. MaxHandles, n \in 1 .. MaxHandles : CloneWorker(h, n)
    \/ \E h \in 1 .. MaxHandles : AllocateVia(h)
    \/ \E h \in 1 .. MaxHandles : DataflowVia(h)
    \/ \E h \in 1 .. MaxHandles, d \in DfIdx : ActivateVia(h, d)
    \/ \E h \in 1 .. MaxHandles, d \in DfIdx, i \in BOOLEAN : ScheduleVia(h, d, i)
    \/ DropWorker

SpecHandles == Init /\ [][NextHandles]_vars

\* C22: all handles to a worker observe the same path map, identifier
\* counter, dataflow registry, activation set and registered broadcaster
\* handles, whatever was done through any of them.
C22_CloneSharesState ==
    \A h1 \in workerHandles, h2 \in workerHandles :
        \A f \in Fields : View(h1, f) = View(h2, f)

C25_IdentifiersIncrease ==
    \A i \in 1 .. Len(issued) : issued[i].id = i - 1

C25_Witness ==
    /\ Len(issued) >= 3
    /\ \E i \in 1 .. Len(issued) - 1 : issued[i].by # issued[i + 1].by

\* try_build has spawned what it spawns, and has returned the endpoints
ClientSpawned ==
    /\ config # NoConfig
    /\ gpc \notin {"start", "try_build", "args_err", "args_panicked", "build_panicked"}

EndpointsReturned == ClientSpawned /\ gpc # "init_err"

Joining == config.kind = "Cluster" /\ config.join # NoJoin

\* C24 as stated: a joining process runs one bootstrap client thread per
\* worker thread and has one set of endpoints per worker thread; any other
\* process has neither.
C24_ClientThreadPerWorker ==
    /\ ClientSpawned => clientThreads = (IF Joining THEN config.threads ELSE 0)
    /\ EndpointsReturned =>
          endpoints = (IF Joining THEN config.threads ELSE NoEndpoints)

\* C24: a joining process runs one bootstrap client thread, which serves the
\* endpoints of all its worker threads, and has one set of endpoints per
\* worker thread; any other process has neither.
C24_OneClientThreadPerProcess ==
    /\ ClientSpawned => clientThreads = (IF Joining THEN 1 ELSE 0)
    /\ EndpointsReturned =>
          endpoints = (IF Joining THEN config.threads ELSE NoEndpoints)
    /\ config = NoConfig => clientThreads = 0 /\ endpoints = NoEndpoints

C24_Witness ==
    /\ Joining
    /\ EndpointsReturned
    /\ config.threads >= 2
    /\ endpoints = config.threads
    /\ clientThreads = 1

(***************************************************************************)
(* The worker specification again: ownership of channels, scheduling of    *)
(* dataflows, what a call returns and when it parks.                       *)
(***************************************************************************)
\* C26: when dataflow_core registers a dataflow, every channel id it moves
\* from the temporary list into the channel_ids of the dataflow was allocated
\* by the construction closure of that very dataflow, and the temporary list
\* is left empty; this also when constructions are nested or a channel was
\* allocated outside any of them, so that a teardown removes only path entries
\* of channels the dataflow allocated.
C26_ChannelsOfOwnConstruction ==
    [][\A d \in (DOMAIN dataflows') \ (DOMAIN dataflows) :
          /\ dataflows'[d].channel_ids = temp_channel_ids
          /\ temp_channel_ids' = <<>>
          /\ Len(allocHist.by) = Len(temp_channel_ids)
          /\ \A i \in 1 .. Len(allocHist.by) : allocHist.by[i] = d]_vars

\* the dataflows whose operator has reported complete: every index handed out
\* so far is under construction, registered, or torn down after completion
Completed ==
    (0 .. (dataflow_counter - 1)) \
       (DOMAIN dataflows \cup {building[i].index : i \in 1 .. Len(building)})

Scheduling ==
    /\ pc = "schedule"
    /\ Len(oplog') = Len(oplog) + 1
    /\ oplog'[Len(oplog')] = "schedule"

\* C27: an operator is scheduled only for an index that for_extensions took
\* from an active path starting with it and that is registered with its
\* operator in place; a dataflow that reported complete leaves the registry
\* in that very iteration and stays completed for ever: its index is given to
\* no later dataflow, and an activation naming it schedules nothing.
C27_ScheduledOnlyWhileRegistered ==
    [][/\ (pc = "decide" /\ pc' = "schedule") =>
             \A k \in SeqToSet(active_dataflows') :
                \E p \in activations.active : p # <<>> /\ p[1] = k
       /\ (pc = "schedule" /\ pc' = "schedule") =>
             active_dataflows' = Tail(active_dataflows)
       /\ Scheduling =>
             /\ Head(active_dataflows) \in DOMAIN dataflows
             /\ dataflows[Head(active_dataflows)].operate
             /\ Head(active_dataflows) \notin Completed
             /\ tornDfs' # tornDfs => Head(active_dataflows) \in Completed'
       /\ (pc = "schedule" /\ pc' = "schedule" /\ ~Scheduling) =>
             /\ Head(active_dataflows) \notin DOMAIN dataflows
             /\ dataflows' = dataflows
       /\ Completed \subseteq Completed'
       /\ \A d \in (DOMAIN dataflows') \ (DOMAIN dataflows) :
             d \notin Completed /\ d < dataflow_counter
       /\ dataflow_counter' >= dataflow_counter]_vars

\* a call has scheduled a dataflow and now finds, next in the list of active
\* dataflows, the index of one that completed in an earlier call
C27_Witness ==
    /\ pc = "schedule"
    /\ Count(oplog, "schedule") >= 1
    /\ active_dataflows # <<>>
    /\ Head(active_dataflows) \in Completed
    /\ Head(active_dataflows) \notin tornDfs

Parked == Decided /\ oplog[5] = "park"

\* C29: step_or_park, and step, which is step_or_park with a zero timeout,
\* return true exactly when a dataflow is registered at the end of the call,
\* after the teardowns of the call; a call that parked returns true.
C29_ReturnsWhetherDataflowsRemain ==
    pc = "returned" =>
       /\ ret <=> (DOMAIN dataflows # {})
       /\ ret <=> (\E d \in DfIdx : d \in DOMAIN dataflows /\ d \notin tornDfs)
       /\ Parked => ret
       /\ (~ret /\ dec.hasDfs) => tornDfs # {}

\* a call of step() tore down the last registered dataflow and answers false
C29_Witness ==
    /\ pc = "returned"
    /\ duration = "zero"
    /\ dec.hasDfs
    /\ tornDfs # {}
    /\ ~ret

\* C30: when the worker calls await_events its event queue and its activation
\* set are empty, and a call that parks schedules no operator and tears down
\* no dataflow: the registry, the path map and the activations are, until
\* the call returns, what they were when it parked.
C30_ParksOnlyWhenDrained ==
    [][/\ (pc = "decide" /\ pc' = "release") =>
             /\ events = <<>>
             /\ ActIsEmpty(activations)
             /\ active_dataflows = <<>>
             /\ oplog' = Append(oplog, "park")
       /\ Parked' =>
             /\ events' = <<>>
             /\ ActIsEmpty(activations')
             /\ Count(oplog', "schedule") = 0
             /\ Count(oplog', "for_extensions") = 0
             /\ tornDfs' = {} /\ tornIds' = {}
             /\ DOMAIN dataflows' # {}
       /\ (Parked /\ pc' # "idle") =>
             /\ dataflows' = dataflows
             /\ paths' = paths
             /\ activations' = activations]_vars

\* a call has drained events of channels without a path and then parked
C30_Witness ==
    /\ Parked
    /\ drained.chans # {}
    /\ pc = "release"

(***************************************************************************)
(* The bootstrap channel between the joiner and the donor's server, for a  *)
(* joiner that arrives at a cluster already at work: every sender has      *)
(* broadcast one update of the first progcaster and the donor has consumed *)
(* it, so that the joiner can miss a range of each of them.                *)
(***************************************************************************)
\* the updates sent before the joiner shows up: one per sender, progcaster 0
EarlyUpdates == [i \in 1 .. Len(SortedSeq(Senders)) |-> Update(SortedSeq(Senders)[i], 0)]

TotalSent == SumOver([x \in Senders |-> SumOver(sentSeq[x], Progcasters)], Senders)

BootAtWork ==
    /\ sentSeq = [s \in Senders |-> [b \in Progcasters |-> IF b = 0 THEN 1 ELSE 0]]
    /\ joined = {}
    /\ liveFrom = [s \in Senders |-> [b \in Progcasters |-> 0]]
    /\ donorState = [b \in Progcasters |->
                        IF b = 0 THEN ConsumeAll(InitialState, EarlyUpdates)
                        ELSE InitialState]
    /\ serverPc = "unborn"
    /\ stateChan = NoMsg
    /\ reqChan = NoMsg
    /\ respChan = NoMsg
    /\ jpc = "idle"
    /\ jstate = [b \in Progcasters |-> InitialState]
    /\ stash = [b \in Progcasters |-> <<>>]
    /\ pulled = [b \in Progcasters |-> [s \in Senders |-> 0]]
    /\ progcasters_left = {}
    /\ progcaster = NoProgcaster
    /\ worker_todo = {}
    /\ ranges = <<>>
    /\ jlog = [b \in Progcasters |-> [s \in Senders |-> <<>>]]
    /\ blog = [b \in Progcasters |-> <<>>]
    /\ snapshot = NoMsg
    /\ wset = [b \in Progcasters |-> {}]
    /\ replayed = [b \in Progcasters |-> <<>>]

InitAtWork ==
    /\ WorkerInit /\ CommIdle /\ BootAtWork /\ ClusterIdle /\ StepWhileIdle
    /\ GuardsIdle /\ HandlesIdle

\* a sender broadcasts a progress update while the joiner is being admitted
BroadcastAtWork(s, b) ==
    /\ TotalSent < Len(EarlyUpdates) + MaxLateUpdates
    /\ sentSeq' = [sentSeq EXCEPT ![s][b] = @ + 1]
    /\ UNCHANGED <<joined, liveFrom, donorState, serverPc, stateChan, reqChan,
                   respChan, jpc, jstate, stash, pulled, progcasters_left,
                   progcaster, worker_todo, ranges, jlog, blog, snapshot, wset,
                   replayed>>
    /\ UNCHANGED notBoot

NextExchange ==
    \/ \E s \in Senders, b \in Progcasters : BroadcastAtWork(s, b)
    \/ \E b \in Progcasters, s \in Senders : DonorPull(b, s)
    \/ \E s \in Senders : AdmitJoiner(s)
    \/ ServerSendStates
    \/ ServerAnswer
    \/ \E endpoint \in BOOLEAN : BootEnter(endpoint)
    \/ BootRecvStates
    \/ \E b \in Progcasters : BootNextProgcaster(b)
    \/ BootReceive
    \/ BootSendRequest
    \/ BootRecvResponse
    \/ BootApplyStashed
    \/ BootReturnTrue

SpecExchange == InitAtWork /\ [][NextExchange]_vars

\* messages on the bootstrap channel the joiner has not received an answer to
Outstanding ==
    (IF reqChan # NoMsg THEN 1 ELSE 0) + (IF respChan # NoMsg THEN 1 ELSE 0)

Requests == SumOver([b \in Progcasters |-> Count(blog[b], "request")], Progcasters)
Applied == SumOver([b \in Progcasters |-> Count(blog[b], "apply")], Progcasters)

\* the request and the response in flight are those of the range the joiner
\* is working on, for the broadcaster of the current iteration
ExchangeMatches ==
    /\ Outstanding <= 1
    /\ Requests - Applied = (IF jpc = "await" THEN 1 ELSE 0)
    /\ Outstanding = 1 => jpc = "await"
    /\ jpc = "await" =>
          /\ ranges # <<>>
          /\ Head(ranges).b = progcaster
          /\ reqChan # NoMsg => reqChan[1] = Head(ranges)
          /\ respChan # NoMsg =>
                respChan[1] = RangeUpdates(Head(ranges).s, Head(ranges).lo,
                                           Head(ranges).hi)

\* C28: requests and responses alternate on the bootstrap channel: at most
\* one request is outstanding, a request is sent only when the response to
\* the one before has been received and applied, and a response is applied
\* to the broadcaster and with the (sender, range) of the request it answers.
C28_RequestResponseAlternate ==
    [][/\ ExchangeMatches'
       /\ Requests' > Requests =>
             /\ Requests = Applied
             /\ Outstanding = 0
             /\ Requests' = Requests + 1
             /\ reqChan' = <<Head(ranges)>>
       /\ Applied' > Applied =>
             LET r == Head(ranges)
                 updates == RangeUpdates(r.s, r.lo, r.hi)
             IN /\ Applied' = Applied + 1
                /\ respChan = <<updates>>
                /\ blog'[r.b] = Append(blog[r.b], "apply")
                /\ jstate' = [jstate EXCEPT
                                 ![r.b] = ApplyUpdatesRange(@, updates)]
                /\ replayed' = [replayed EXCEPT ![r.b] = @ \o updates]
                /\ Outstanding' = 0]_vars

\* the response to a second request is in flight
C28_Witness ==
    /\ jpc = "await"
    /\ respChan # NoMsg
    /\ Applied >= 1
    /\ Requests = Applied + 1

(***************************************************************************)
(* bootstrap() of a worker without a bootstrap endpoint.                   *)
(***************************************************************************)
\* what bootstrap() itself reads and writes: the client handles, the loop
\* variables, what receive() pulled, and its side of the bootstrap channel
bootstrapState ==
    <<jstate, stash, pulled, progcasters_left, progcaster, worker_todo, ranges,
      jlog, blog, wset, replayed, reqChan, respChan>>

\* nothing was installed, received, requested, replayed or applied
Untouched ==
    /\ jstate = [b \in Progcasters |-> InitialState]
    /\ stash = [b \in Progcasters |-> <<>>]
    /\ pulled = [b \in Progcasters |-> [s \in Senders |-> 0]]
    /\ blog = [b \in Progcasters |-> <<>>]
    /\ jlog = [b \in Progcasters |-> [s \in Senders |-> <<>>]]
    /\ replayed = [b \in Progcasters |-> <<>>]
    /\ wset = [b \in Progcasters |-> {}]
    /\ progcasters_left = {} /\ progcaster = NoProgcaster
    /\ worker_todo = {} /\ ranges = <<>>
    /\ reqChan = NoMsg /\ respChan = NoMsg

\* C31: bootstrap() of a worker without a bootstrap endpoint returns false in
\* one step that changes nothing of the worker: no snapshot is installed or
\* taken from the channel, receive() pulls nothing, no range is requested and
\* no stashed message is applied, and nothing of it happens afterwards; and
\* bootstrap() has returned true only with the stashed messages of every
\* progcaster applied, as the last call on its client handle.
C31_NoEndpointNoEffect ==
    [][/\ (jpc # "returned_false" /\ jpc' = "returned_false") =>
             /\ jpc = "idle"
             /\ bootstrapState' = bootstrapState
             /\ stateChan' = stateChan
       /\ jpc' = "returned_false" =>
             /\ Untouched'
             /\ stateChan' # stateChan => stateChan = NoMsg
       /\ jpc = "returned_false" => jpc' = "returned_false"
       /\ jpc' = "returned_true" =>
             \A b \in Progcasters :
                /\ Count(blog'[b], "stash") = 1
                /\ blog'[b][Len(blog'[b])] = "stash"
                /\ blog'[b][1] = "install"
                /\ stash'[b] = <<>>]_vars

\* bootstrap() has returned false although a snapshot waits on the bootstrap
\* channel and a sender has sent a live update that receive() would surface
C31_Witness ==
    /\ jpc = "returned_false"
    /\ stateChan # NoMsg
    /\ \E b \in Progcasters, s \in Senders : LiveUnpulled(b, s) # <<>>

====
